---- MODULE Spec2Model ----
(***************************************************************************)
(* Lumen Clew backend: the scan orchestration pipeline.                    *)
(*                                                                         *)
(*   orchestrateScan   (utils/orchestrateScan.js, src/unnamed/part_003)    *)
(*   fetchGitHubRepo   (utils/gitHubFetcher.js,   src/unnamed/part_001)    *)
(*   validateGithubUrl (lib/validateGithubUrl.js, src/unnamed/part_004)    *)
(*   translatePanel / translateBatch (src/utils/claudeTranslator.js)       *)
(*                                                                         *)
(* Three specifications share the pure operators of the translator:        *)
(*   Spec          one client request after another through orchestrateScan*)
(*   SpecBatch     translateBatch on one batch and one service reply       *)
(*   SpecTranslate translatePanel: cap, batches, merge                     *)
(***************************************************************************)
EXTENDS Integers, Sequences, FiniteSets

VARIABLES
    \* ---- orchestrateScan (Spec) ----
    pc,            \* position of the invocation in orchestrateScan
    args,          \* {repoUrl, clientIp} of the invocation
    normalizedUrl, \* orchestrateScan's local `normalizedUrl`
    today,         \* getTodayUTC(): the current UTC calendar day
    clock,         \* Date.now(), read when the temp directory is named
    rateLimitMap,  \* the module-level Map clientIp -> {count, resetDate}
    fsDirs,        \* the temp directories that exist on disk
    env,           \* process.env.ANTHROPIC_API_KEY is set
    tempDir,       \* orchestrateScan's local `tempDir`
    createdDir,    \* the directory fetchGitHubRepo made for this invocation
    fetchResult,   \* what fetchGitHubRepo returned
    toolResults,   \* [eslintResult, npmAuditResult, secretsResult, a11yResult]
    calls,         \* history: the collaborators this invocation has called
    crashed,       \* history: the adapters whose call threw
    translations,  \* translateAllPanels' result map
    result,        \* the value orchestrateScan resolves to
    mapAtCall,     \* rateLimitMap as it was when the invocation started
    \* ---- translateBatch (SpecBatch) ----
    b_pc, b_findings, b_response, b_result,
    \* ---- translatePanel (SpecTranslate) ----
    t_pc, t_raw, t_apiKey, t_batchResults, t_result,
    t_arrival,     \* history: the batches in the order in which they settled
    t_responses,   \* history: what each settled batch's request came to
    t_record,      \* whether t_responses is kept (SpecIsolation)
    t_panel,       \* the panel orchestrateScan builds from t_result
    \* ---- capFindingsBySeverity (SpecCap) ----
    c_pc,          \* "called" or "done"
    c_given,       \* the list as it was passed
    c_findings,    \* the caller's array object, as it is now
    c_max,         \* maxCount
    c_result,      \* {capped, truncated, originalCount}
    \* ---- checkRateLimit / incrementRateLimit (SpecRate) ----
    incsToday,     \* history: incrementRateLimit calls per client this UTC day
    lastCheck,     \* history: the last checkRateLimit call and what it returned
    \* ---- calculateStatus / panel assembly (SpecStatus) ----
    s_statuses,    \* panelResults handed to calculateStatus
    s_tool,        \* one analyzer result
    s_translation, \* the translation result of its panel
    s_overall,     \* what calculateStatus returned
    s_panel,       \* the panel built from s_tool and s_translation
    \* ---- finding ids (SpecIds) ----
    i_tempDir,     \* the temp directory of the scan that is running
    i_found,       \* history: the findings built so far, each with its scan
    \* ---- concurrent scans and their temp directories (SpecConcurrent) ----
    k_pc,          \* per invocation: "idle", "fetching", "translating"
    k_dir,         \* per invocation: the temp directory of its copy (0: none)
    k_dirs,        \* the temp directories that exist
    k_clock,       \* Date.now()
    k_deletedInUse, \* history: invocations whose directory was removed under them
    \* ---- parseClaudeResponse (SpecParse) ----
    p_pc,          \* "called" or "done"
    p_text,        \* the reply text, as a sequence of chunks
    p_out,         \* what parseClaudeResponse returned, and the tiers it tried
    \* ---- the batches of one translatePanel call and their timers (SpecDeadline) ----
    d_pc,          \* per batch: "fetch" (awaiting fetch), "body" (awaiting the body), "settled"
    d_batches,     \* the batches of the panel
    d_timer,       \* per batch: the setTimeout is "armed", "cleared" or "fired"
    d_passed,      \* per batch: claudeTranslationTimeoutMs have gone by since its start
    d_late,        \* history, per batch: it had not settled when its deadline passed
    d_result,      \* per batch: what translateBatch returned, <<>> before
    \* ---- overlapping scans and the quota (SpecOverlap) ----
    q_pc,          \* per invocation: "idle", "scanning" (between Step 2 and Step 9), "returned"
    q_client,      \* per invocation: its clientIp
    q_seen,        \* per invocation: the snapshot its Step 2 took
    q_outcome,     \* per invocation: "none", "report" or the error code returned, and the day
    q_map,         \* rateLimitMap
    q_today,       \* the UTC date
    q_reports,     \* history: per client and day, the scans that returned a report
    q_overlap      \* whether the callers let scans of one client overlap

orchVars == <<pc, args, normalizedUrl, today, clock, rateLimitMap, fsDirs, env, tempDir,
              createdDir, fetchResult, toolResults, calls, crashed, translations,
              result, mapAtCall>>
batchVars == <<b_pc, b_findings, b_response, b_result>>
panelVars ==
    <<t_pc, t_raw, t_apiKey, t_batchResults, t_arrival, t_responses, t_record,
      t_result, t_panel>>
capVars == <<c_pc, c_given, c_findings, c_max, c_result>>
rateVars == <<incsToday, lastCheck>>
statusVars == <<s_statuses, s_tool, s_translation, s_overall, s_panel>>
idVars == <<i_tempDir, i_found>>
ownVars == <<k_pc, k_dir, k_dirs, k_clock, k_deletedInUse>>
parseVars == <<p_pc, p_text, p_out>>
deadlineVars == <<d_pc, d_batches, d_timer, d_passed, d_late, d_result>>
overlapVars == <<q_pc, q_client, q_seen, q_outcome, q_map, q_today, q_reports, q_overlap>>
asyncVars == <<deadlineVars, overlapVars>>
unitVars == <<capVars, rateVars, statusVars, idVars, ownVars, parseVars, asyncVars>>
vars == <<orchVars, batchVars, panelVars, unitVars>>

----------------------------------------------------------------------------
(* Bounds and scaled configuration                                         *)

\* CONFIG.MAX_FINDINGS_PER_PANEL is 25 and BATCH_SIZE is 8 in the source; the
\* model keeps their roles (cap, batch width, cap > batch width so that a
\* capped panel has a short last batch) at a size TLC can enumerate.
MAX_FINDINGS_PER_PANEL == 3
BATCH_SIZE == 2
\* CONFIG.MAX_SCANS_PER_DAY is 10 in the source.
MAX_SCANS_PER_DAY == 2

MaxLen == 4          \* longest finding list handed to translatePanel
MaxResp == 3         \* most entries in one parsed service reply
MaxInvocations == 2  \* orchestrateScan invocations in one behaviour
MaxDay == 2          \* UTC days a behaviour spans
MaxCapLen == 4       \* longest list handed to capFindingsBySeverity alone
MaxOver == 1         \* incrementRateLimit calls beyond the daily limit
MaxIsoResp == 1      \* entries of a reply in SpecIsolation
HashSpace == 65536   \* digests kept: four hex digits for the sixteen of the code
MaxScans == 2        \* scans of one repository in SpecIds
MaxFound == 3        \* findings on record in SpecIds
MaxClock == 3        \* milliseconds a behaviour of SpecConcurrent spans
MaxChunks == 5       \* chunks of a reply text in SpecParse
MaxOverlap == 3      \* invocations of orchestrateScan in SpecOverlap

Undefined == "undefined"   \* JavaScript's undefined / a missing property
Null == "null"

Max(S) == CHOOSE x \in S : \A y \in S : y <= x
Min2(a, b) == IF a <= b THEN a ELSE b

SeqsUpTo(S, n) == UNION {[1..k -> S] : k \in 0..n}

RECURSIVE FlatMap(_)
FlatMap(ss) == IF ss = <<>> THEN <<>> ELSE Head(ss) \o FlatMap(Tail(ss))

RECURSIVE SumSeq(_)
SumSeq(ns) == IF ns = <<>> THEN 0 ELSE Head(ns) + SumSeq(Tail(ns))

----------------------------------------------------------------------------
(* Strings.  A text is one of a few representative JavaScript strings; the  *)
(* string functions the translator applies are given on them.              *)

LongText == "L*501"          \* a text of 501 characters
LongTextCut == "L*500..."    \* its first 500 characters plus the marker

\* String.prototype.trim
Trim(s) ==
    CASE s = "   " -> ""
      [] s = " tB " -> "tB"
      [] OTHER -> s

\* trimString in validateTranslatedFinding: s.length > 500 ? s.slice(0,500)+'...' : s
TrimString(s) == IF s = LongText THEN LongTextCut ELSE s

\* String(id).toLowerCase()
ToLowerCase(s) ==
    CASE s = "A1" -> "a1"
      [] s = "B2" -> "b2"
      [] s = "C3" -> "c3"
      [] OTHER -> s

IsString(v) == v # Undefined /\ v # Null

\* A RawFinding (lib/types.js); panel, tool and metadata are not read by the
\* translator and are left out.
finding(id, severity, message, file, line, column) ==
    [id |-> id, severity |-> severity, message |-> message,
     file |-> file, line |-> line, column |-> column]

Panels == <<"code_quality", "dependencies", "secrets", "accessibility">>
PanelSet == {Panels[i] : i \in 1..4}

----------------------------------------------------------------------------
(* claudeTranslator.js: pure functions                                     *)

\* A missing object (Map.get miss, null, a number in the parsed array): the
\* `!obj || typeof obj !== 'object'` case.
NoItem ==
    [isObject |-> FALSE, id |-> Undefined, plainLanguage |-> Undefined,
     context |-> Undefined, reflection |-> Undefined, importance |-> Undefined,
     panel |-> Undefined, commonApproaches |-> <<>>, staticAnalysisNote |-> Undefined]

mapSeverityToImportance(severity) ==
    CASE severity = "critical" -> "important"
      [] severity = "high" -> "explore"
      [] severity = "medium" -> "note"
      [] severity = "low" -> "fyi"
      [] OTHER -> "note"

\* severityOrder.indexOf(severity)
severityIndex(severity) ==
    CASE severity = "critical" -> 0
      [] severity = "high" -> 1
      [] severity = "medium" -> 2
      [] severity = "low" -> 3
      [] OTHER -> -1

\* [...findings].sort((a, b) => indexOf(a) - indexOf(b)): Array.prototype.sort
\* is stable, so equal keys keep their input order.
sortBySeverity(findings) ==
    LET WithIndex(k) == SelectSeq(findings, LAMBDA f : severityIndex(f.severity) = k)
    IN WithIndex(-1) \o WithIndex(0) \o WithIndex(1) \o WithIndex(2) \o WithIndex(3)

\* capFindingsBySeverity without the sort: the first maxCount findings.
capFindingsBySeverity_noSort(findings, maxCount) ==
    IF Len(findings) <= maxCount
    THEN [capped |-> findings, truncated |-> FALSE, originalCount |-> Len(findings)]
    ELSE [capped |-> SubSeq(findings, 1, maxCount),
          truncated |-> TRUE,
          originalCount |-> Len(findings)]

capFindingsBySeverity(findings, maxCount) ==
    IF Len(findings) <= maxCount
    THEN [capped |-> findings, truncated |-> FALSE, originalCount |-> Len(findings)]
    ELSE [capped |-> SubSeq(sortBySeverity(findings), 1, maxCount),
          truncated |-> TRUE,
          originalCount |-> Len(findings)]

\* findings.sort(...) on the argument itself instead of on a copy.
argumentAfterCap_sortedInPlace(findings, maxCount) ==
    IF Len(findings) <= maxCount THEN findings ELSE sortBySeverity(findings)

\* The caller's array after capFindingsBySeverity(findings, maxCount): the
\* sort runs on the copy [...findings].
argumentAfterCap(findings, maxCount) == findings

validImportance == {"fyi", "note", "explore", "important"}

\* Mutant of validateTranslatedFinding: the validated object takes the id the
\* service sent (finding.id) instead of originalId.
validateTranslatedFinding_serviceId(obj, originalId) ==
    IF ~obj.isObject THEN <<>>
    ELSE IF ~IsString(obj.plainLanguage) \/ Trim(obj.plainLanguage) = "" THEN <<>>
    ELSE IF ~IsString(obj.context) \/ Trim(obj.context) = "" THEN <<>>
    ELSE IF ~IsString(obj.reflection) \/ Trim(obj.reflection) = "" THEN <<>>
    ELSE <<[id |-> obj.id,
            panel |-> "code_quality",
            plainLanguage |-> TrimString(Trim(obj.plainLanguage)),
            context |-> TrimString(Trim(obj.context)),
            importance |-> "note",
            reflection |-> TrimString(Trim(obj.reflection)),
            commonApproaches |-> <<>>,
            staticAnalysisNote |-> Undefined]>>

\* Mutant of validateTranslatedFinding: the reflection is not tested.
validateTranslatedFinding_noReflectionCheck(obj, originalId) ==
    IF ~obj.isObject THEN <<>>
    ELSE IF ~IsString(obj.plainLanguage) \/ Trim(obj.plainLanguage) = "" THEN <<>>
    ELSE IF ~IsString(obj.context) \/ Trim(obj.context) = "" THEN <<>>
    ELSE <<[id |-> originalId,
            panel |-> IF obj.panel \in PanelSet THEN obj.panel ELSE "code_quality",
            plainLanguage |-> TrimString(Trim(obj.plainLanguage)),
            context |-> TrimString(Trim(obj.context)),
            importance |-> IF obj.importance \in validImportance
                           THEN obj.importance ELSE "note",
            reflection |-> IF IsString(obj.reflection)
                           THEN TrimString(Trim(obj.reflection)) ELSE "",
            commonApproaches |-> <<>>,
            staticAnalysisNote |-> Undefined]>>

\* Returns <<>> for null and <<validated>> otherwise.  commonApproaches is
\* <<>> when the property is absent and <<list>> when it is an array.
validateTranslatedFinding(obj, originalId) ==
    IF ~obj.isObject THEN <<>>
    ELSE IF ~IsString(obj.plainLanguage) \/ Trim(obj.plainLanguage) = "" THEN <<>>
    ELSE IF ~IsString(obj.context) \/ Trim(obj.context) = "" THEN <<>>
    ELSE IF ~IsString(obj.reflection) \/ Trim(obj.reflection) = "" THEN <<>>
    ELSE
      LET importance == IF obj.importance \in validImportance
                        THEN obj.importance ELSE "note"
          panel == IF obj.panel \in PanelSet THEN obj.panel ELSE "code_quality"
          approaches ==
              IF obj.commonApproaches = <<>> THEN <<>>
              ELSE LET strs == SelectSeq(obj.commonApproaches[1], IsString)
                       cut == SubSeq(strs, 1, Min2(5, Len(strs)))
                   IN <<[i \in 1..Len(cut) |-> TrimString(Trim(cut[i]))]>>
      IN <<[id |-> originalId,
            panel |-> panel,
            plainLanguage |-> TrimString(Trim(obj.plainLanguage)),
            context |-> TrimString(Trim(obj.context)),
            importance |-> importance,
            reflection |-> TrimString(Trim(obj.reflection)),
            commonApproaches |-> approaches,
            staticAnalysisNote |->
                IF IsString(obj.staticAnalysisNote)
                THEN TrimString(Trim(obj.staticAnalysisNote)) ELSE Undefined]>>

\* `This finding was detected by automated analysis${file ? ` in ${file}` : ''}.`
fallbackContext(file) ==
    CASE file = Undefined -> "This finding was detected by automated analysis."
      [] file = "src/a.js" -> "This finding was detected by automated analysis in src/a.js."
      [] file = "src/b.jsx" -> "This finding was detected by automated analysis in src/b.jsx."
      [] OTHER -> "This finding was detected by automated analysis in <file>."

\* `Translation unavailable (${reason}). Showing original finding.`
unavailableNote(reason) ==
    CASE reason = "MISSING_API_KEY" -> "Translation unavailable (MISSING_API_KEY). Showing original finding."
      [] reason = "CLAUDE_API_ERROR" -> "Translation unavailable (CLAUDE_API_ERROR). Showing original finding."
      [] reason = "EMPTY_RESPONSE" -> "Translation unavailable (EMPTY_RESPONSE). Showing original finding."
      [] reason = "CLAUDE_TIMEOUT" -> "Translation unavailable (CLAUDE_TIMEOUT). Showing original finding."
      [] OTHER -> "Translation unavailable (UNEXPECTED_ERROR). Showing original finding."

fallbackReflection == "Consider reviewing this in the context of your specific project needs."
partialNote == "Partial translation - showing original finding."

fallbackFinding(raw, panel, note) ==
    [id |-> raw.id,
     panel |-> panel,
     plainLanguage |-> raw.message,
     context |-> fallbackContext(raw.file),
     importance |-> mapSeverityToImportance(raw.severity),
     reflection |-> fallbackReflection,
     commonApproaches |-> <<>>,
     staticAnalysisNote |-> note,
     file |-> raw.file, line |-> raw.line, column |-> raw.column]

buildFallback(rawFindings, panel, reason) ==
    [i \in 1..Len(rawFindings) |->
        fallbackFinding(rawFindings[i], panel, unavailableNote(reason))]

\* The loop `for (const item of parsed) if (item && typeof item === 'object'
\* && item.id) translationMap.set(String(item.id).toLowerCase(), item)`:
\* a function from the lower-cased ids seen so far to the last item set.
RECURSIVE buildTranslationMap(_, _)
buildTranslationMap(parsed, map) ==
    IF parsed = <<>> THEN map
    ELSE LET item == Head(parsed)
             key == ToLowerCase(item.id)
         IN IF item.isObject /\ item.id # Undefined /\ item.id # ""
            THEN buildTranslationMap(Tail(parsed),
                    [k \in DOMAIN map \cup {key} |-> IF k = key THEN item ELSE map[k]])
            ELSE buildTranslationMap(Tail(parsed), map)

emptyMap == [k \in {} |-> NoItem]

\* translationMap.get(lookupId)
mapGet(map, key) == IF key \in DOMAIN map THEN map[key] ELSE NoItem

\* The reconciliation pass without `validated.importance = ...`: a matched
\* finding keeps the importance validateTranslatedFinding took from the reply.
reconcileOne_serviceImportance(panel, rawFinding, translationMap) ==
    LET lookupId == ToLowerCase(rawFinding.id)
        parsedObj == mapGet(translationMap, lookupId)
        validated == validateTranslatedFinding(parsedObj, rawFinding.id)
    IN IF validated # <<>>
       THEN [matched |-> TRUE,
             finding |-> [id |-> validated[1].id,
                          panel |-> panel,
                          plainLanguage |-> validated[1].plainLanguage,
                          context |-> validated[1].context,
                          importance |-> validated[1].importance,
                          reflection |-> validated[1].reflection,
                          commonApproaches |-> validated[1].commonApproaches,
                          staticAnalysisNote |-> validated[1].staticAnalysisNote,
                          file |-> rawFinding.file,
                          line |-> rawFinding.line,
                          column |-> rawFinding.column]]
       ELSE [matched |-> FALSE,
             finding |-> fallbackFinding(rawFinding, panel, partialNote)]

\* One pass of the `for (const rawFinding of batchFindings)` loop.
reconcileOne(panel, rawFinding, translationMap) ==
    LET lookupId == ToLowerCase(rawFinding.id)
        parsedObj == mapGet(translationMap, lookupId)
        validated == validateTranslatedFinding(parsedObj, rawFinding.id)
    IN IF validated # <<>>
       THEN [matched |-> TRUE,
             finding |-> [id |-> validated[1].id,
                          panel |-> panel,
                          plainLanguage |-> validated[1].plainLanguage,
                          context |-> validated[1].context,
                          importance |-> mapSeverityToImportance(rawFinding.severity),
                          reflection |-> validated[1].reflection,
                          commonApproaches |-> validated[1].commonApproaches,
                          staticAnalysisNote |-> validated[1].staticAnalysisNote,
                          file |-> rawFinding.file,
                          line |-> rawFinding.line,
                          column |-> rawFinding.column]]
       ELSE [matched |-> FALSE,
             finding |-> fallbackFinding(rawFinding, panel, partialNote)]

allFallback(batchFindings, panel, reason) ==
    [findings |-> buildFallback(batchFindings, panel, reason),
     matchedCount |-> 0,
     fallbackCount |-> Len(batchFindings)]

\* Mutant of translateBatch: the i-th finding is paired with the i-th entry of
\* the reply (by position), not with the entry carrying its id.
translateBatch_positional(panel, batchFindings, response) ==
    CASE response.kind = "http_error" -> allFallback(batchFindings, panel, "CLAUDE_API_ERROR")
      [] response.kind = "empty" -> allFallback(batchFindings, panel, "EMPTY_RESPONSE")
      [] response.kind = "timeout" -> allFallback(batchFindings, panel, "CLAUDE_TIMEOUT")
      [] response.kind = "network" -> allFallback(batchFindings, panel, "UNEXPECTED_ERROR")
      [] OTHER ->
          LET entryAt(i) == IF i <= Len(response.parsed) THEN response.parsed[i] ELSE NoItem
              each == [i \in 1..Len(batchFindings) |->
                          reconcileOne(panel, batchFindings[i],
                              [k \in {ToLowerCase(batchFindings[i].id)} |-> entryAt(i)])]
              matchedCount == Cardinality({i \in 1..Len(batchFindings) : each[i].matched})
          IN [findings |-> [i \in 1..Len(batchFindings) |-> each[i].finding],
              matchedCount |-> matchedCount,
              fallbackCount |-> Len(batchFindings) - matchedCount]

\* translateBatch, given what the request to the service came to:
\*   kind "timeout"    the AbortController fired (AbortError)
\*   kind "network"    fetch or response.json() threw anything else
\*   kind "http_error" !response.ok
\*   kind "empty"      data.content?.[0]?.text is missing or ''
\*   kind "ok"         parseClaudeResponse(content) = response.parsed
translateBatch(panel, batchFindings, response) ==
    CASE response.kind = "http_error" -> allFallback(batchFindings, panel, "CLAUDE_API_ERROR")
      [] response.kind = "empty" -> allFallback(batchFindings, panel, "EMPTY_RESPONSE")
      [] response.kind = "timeout" -> allFallback(batchFindings, panel, "CLAUDE_TIMEOUT")
      [] response.kind = "network" -> allFallback(batchFindings, panel, "UNEXPECTED_ERROR")
      [] OTHER ->
          LET translationMap == buildTranslationMap(response.parsed, emptyMap)
              each == [i \in 1..Len(batchFindings) |->
                          reconcileOne(panel, batchFindings[i], translationMap)]
              matchedCount == Cardinality({i \in 1..Len(batchFindings) : each[i].matched})
          IN [findings |-> [i \in 1..Len(batchFindings) |-> each[i].finding],
              matchedCount |-> matchedCount,
              fallbackCount |-> Len(batchFindings) - matchedCount]

\* Mutant of sliceBatches: capped.slice(i, i + BATCH_SIZE + 1), so that each
\* batch also holds the first finding of the next one.
sliceBatches_overlap(capped) ==
    [b \in 1..((Len(capped) + BATCH_SIZE - 1) \div BATCH_SIZE) |->
        SubSeq(capped, (b - 1) * BATCH_SIZE + 1, Min2(b * BATCH_SIZE + 1, Len(capped)))]

\* The loop with the test `i + BATCH_SIZE <= capped.length`: a last batch
\* that is not full is never made.
numBatches_floor(capped) == Len(capped) \div BATCH_SIZE

\* for (let i = 0; i < capped.length; i += BATCH_SIZE) batches.push(capped.slice(i, i + BATCH_SIZE))
numBatches(capped) == (Len(capped) + BATCH_SIZE - 1) \div BATCH_SIZE
sliceBatches(capped) ==
    [b \in 1..numBatches(capped) |->
        SubSeq(capped, (b - 1) * BATCH_SIZE + 1, Min2(b * BATCH_SIZE, Len(capped)))]

\* Mutant of combineBatches: the status compares the matched total with
\* originalCount, the length before the cap, instead of capped.length.
combineBatches_originalCount(panel, cap, batchResults) ==
    LET allFindings == FlatMap([b \in 1..Len(batchResults) |-> batchResults[b].findings])
        totalMatched == SumSeq([b \in 1..Len(batchResults) |-> batchResults[b].matchedCount])
        status == IF totalMatched = cap.originalCount THEN "success"
                  ELSE IF totalMatched > 0 THEN "partial" ELSE "failed"
    IN [panel |-> panel,
        findings |-> allFindings,
        status |-> status,
        statusReason |-> IF status # "success" THEN "partial_parse" ELSE Undefined,
        truncated |-> <<cap.truncated>>,
        originalCount |-> cap.originalCount,
        translatedCount |-> totalMatched]

\* The tail of translatePanel: combine the batch results in batch order.
combineBatches(panel, cap, batchResults) ==
    LET allFindings == FlatMap([b \in 1..Len(batchResults) |-> batchResults[b].findings])
        totalMatched == SumSeq([b \in 1..Len(batchResults) |-> batchResults[b].matchedCount])
        status == IF totalMatched = Len(cap.capped) THEN "success"
                  ELSE IF totalMatched > 0 THEN "partial" ELSE "failed"
    IN [panel |-> panel,
        findings |-> allFindings,
        status |-> status,
        statusReason |-> IF status # "success" THEN "partial_parse" ELSE Undefined,
        truncated |-> <<cap.truncated>>,
        originalCount |-> cap.originalCount,
        translatedCount |-> totalMatched]

\* translatePanel without the `if (!apiKey)` return: the batches are sent.
translatePanelEarly_noKeyCheck(panel, rawFindings, apiKey) ==
    IF Len(rawFindings) = 0
    THEN <<[panel |-> panel, findings |-> <<>>, status |-> "success",
            statusReason |-> Undefined, truncated |-> <<>>,
            originalCount |-> 0, translatedCount |-> 0]>>
    ELSE <<>>

\* translatePanel without the empty-list return.
translatePanelEarly_noEmptyCheck(panel, rawFindings, apiKey) ==
    IF ~apiKey
    THEN <<[panel |-> panel,
            findings |-> buildFallback(rawFindings, panel, "MISSING_API_KEY"),
            status |-> "failed", statusReason |-> "MISSING_API_KEY",
            truncated |-> <<>>,
            originalCount |-> Len(rawFindings), translatedCount |-> 0]>>
    ELSE <<>>

\* translatePanel up to the point where the batches are sent: the two early
\* returns, as <<result>>, or <<>> when batches are needed.  `truncated` is
\* <<>> where the returned object has no such property.
translatePanelEarly(panel, rawFindings, apiKey) ==
    IF Len(rawFindings) = 0
    THEN <<[panel |-> panel, findings |-> <<>>, status |-> "success",
            statusReason |-> Undefined, truncated |-> <<>>,
            originalCount |-> 0, translatedCount |-> 0]>>
    ELSE IF ~apiKey
    THEN <<[panel |-> panel,
            findings |-> buildFallback(rawFindings, panel, "MISSING_API_KEY"),
            status |-> "failed", statusReason |-> "MISSING_API_KEY",
            truncated |-> <<>>,
            originalCount |-> Len(rawFindings), translatedCount |-> 0]>>
    ELSE <<>>

\* translatePanel, with responses[b] what batch b's request came to.
translatePanel(panel, rawFindings, apiKey, responses) ==
    LET early == translatePanelEarly(panel, rawFindings, apiKey)
        cap == capFindingsBySeverity(rawFindings, MAX_FINDINGS_PER_PANEL)
        batches == sliceBatches(cap.capped)
    IN IF early # <<>> THEN early[1]
       ELSE combineBatches(panel, cap,
               [b \in 1..Len(batches) |-> translateBatch(panel, batches[b], responses[b])])

----------------------------------------------------------------------------
(* validateGithubUrl.js, gitHubFetcher.js                                  *)

\* A repoUrl is a string made of a prefix, path segments and an optional
\* trailing slash, or no string at all (isString = FALSE).
url(prefix, path, slash) ==
    [isString |-> TRUE, prefix |-> prefix, path |-> path, slash |-> slash]

\* [a-zA-Z0-9_-]+ and [a-zA-Z0-9_.-]+ on the segments of the universe.
OwnerSegments == {"owner"}
RepoSegments == {"owner", "repo", "repo.js"}

\* The pattern without its `$` anchor: anything may follow owner/repo.
matchesUrlPattern_unanchored(u) ==
    /\ u.prefix = "https://github.com/"
    /\ Len(u.path) >= 2
    /\ u.path[1] \in OwnerSegments
    /\ u.path[2] \in RepoSegments

\* CONFIG.GITHUB_URL_PATTERN: ^https://github.com/<owner>/<repo>/?$
matchesUrlPattern(u) ==
    /\ u.prefix = "https://github.com/"
    /\ Len(u.path) = 2
    /\ u.path[1] \in OwnerSegments
    /\ u.path[2] \in RepoSegments

\* validateGithubUrl after url.trim() succeeded (the argument is a string).
validateGithubUrl(u) ==
    IF u.prefix = "" /\ u.path = <<>> /\ ~u.slash
    THEN [isValid |-> FALSE, error |-> "Please enter a GitHub repository URL",
          normalizedUrl |-> u]
    ELSE IF u.prefix # "https://github.com/"
    THEN [isValid |-> FALSE, error |-> "URL must start with https://github.com/",
          normalizedUrl |-> u]
    ELSE IF ~matchesUrlPattern(u)
    THEN [isValid |-> FALSE, error |-> "Invalid GitHub repository URL format",
          normalizedUrl |-> u]
    ELSE [isValid |-> TRUE, error |-> Undefined,
          normalizedUrl |-> [u EXCEPT !.slash = FALSE]]

\* GITHUB_URL_REGEX: github\.com/<owner>/<repo>/?$ anywhere in the string.
matchesFetchRegex(u) ==
    /\ u.prefix \in {"https://github.com/", "http://github.com/"}
    /\ Len(u.path) = 2
    /\ u.path[1] \in OwnerSegments
    /\ u.path[2] \in RepoSegments

\* cleanupDir: rmSync(recursive, force) of an existing directory.
cleanupDir(dirs, dir) == dirs \ {dir}

\* What the request for the repository tree comes to.
FetchOutcomes ==
    {"mkdir_fails", "404", "403", "http_error", "timeout", "network",
     "bad_tree", "ok"}

fetchFailure(dirs, made, error) ==
    [threw |-> FALSE, success |-> FALSE, tempDir |-> 0, error |-> error,
     dirs |-> dirs, made |-> made]

\* fetchGitHubRepo(repoUrl) when Date.now() = now and the directories `dirs`
\* exist.  The answer holds what the caller gets (threw, success, tempDir,
\* error), the directories that exist afterwards, and the directory made.
\* "bad_tree" is a 200 reply whose JSON has no `tree` array: the statement
\* treeData.tree.filter(...) after the try block throws a TypeError.
fetchGitHubRepo(u, outcome, now, dirs) ==
    IF ~matchesFetchRegex(u)
    THEN fetchFailure(dirs, 0, "Invalid GitHub URL format")
    ELSE IF outcome = "mkdir_fails"
    THEN fetchFailure(dirs, 0, "Failed to create temp directory")
    ELSE
      LET made == dirs \cup {now}
      IN CASE outcome = "404" ->
                 fetchFailure(cleanupDir(made, now), now, "Repository not found (404)")
           [] outcome = "403" ->
                 fetchFailure(cleanupDir(made, now), now, "GitHub API access forbidden (403)")
           [] outcome = "http_error" ->
                 fetchFailure(cleanupDir(made, now), now, "GitHub API error")
           [] outcome = "timeout" ->
                 fetchFailure(cleanupDir(made, now), now, "GitHub API request timed out")
           [] outcome = "network" ->
                 fetchFailure(cleanupDir(made, now), now, "Failed to fetch repository tree")
           [] outcome = "bad_tree" ->
                 [threw |-> TRUE, success |-> FALSE, tempDir |-> 0,
                  error |-> "TypeError", dirs |-> made, made |-> now]
           [] OTHER ->
                 [threw |-> FALSE, success |-> TRUE, tempDir |-> now,
                  error |-> Undefined, dirs |-> made, made |-> now]

----------------------------------------------------------------------------
(* The analyzer adapters                                                   *)

Tools == <<"ESLint", "npm audit", "Secrets Scanner", "A11y Analyzer">>

\* What the adapters detect in the fetched copy: per panel, nothing or two
\* findings with ids of their own.
Detections(i) ==
    CASE i = 1 -> <<finding("e1", "high", "m1", "src/a.js", 1, 1),
                    finding("e2", "low", "m2", "src/a.js", 2, 1)>>
      [] i = 2 -> <<finding("d1", "critical", "m3", "package.json", 1, 0),
                    finding("d2", "medium", "m4", "package.json", 1, 0)>>
      [] i = 3 -> <<finding("s1", "critical", "m5", "src/a.js", 3, 0),
                    finding("s2", "high", "m6", "src/b.jsx", 1, 0)>>
      [] OTHER -> <<finding("y1", "high", "m7", "src/b.jsx", 4, 1),
                    finding("y2", "medium", "m8", "src/b.jsx", 5, 1)>>

\* How a run of an adapter goes: kind "ok" (the tool ran), "timeout" (its
\* deadline passed), "throws" (an exception leaves the adapter function),
\* with the detections made.
AdapterRuns(i) ==
    {[kind |-> "ok", detections |-> <<>>],
     [kind |-> "ok", detections |-> Detections(i)],
     [kind |-> "timeout", detections |-> <<>>],
     [kind |-> "throws", detections |-> <<>>]}

toolResult(success, findings, error) ==
    [success |-> success, findings |-> findings, error |-> error]

\* `if (findings.length >= CONFIG.MAX_FINDINGS_PER_PANEL) continue`
firstFindings(detections) ==
    SubSeq(detections, 1, Min2(MAX_FINDINGS_PER_PANEL, Len(detections)))

runESLint(run) ==
    IF run.kind = "timeout"
    THEN toolResult(TRUE, <<>>, "ESLint timeout")
    ELSE toolResult(TRUE, firstFindings(run.detections), Undefined)

runNpmAudit(run) ==
    IF run.kind = "timeout"
    THEN toolResult(TRUE, <<>>, "npm audit timeout exceeded")
    ELSE toolResult(TRUE, firstFindings(run.detections), Undefined)

runSecretsScanner(run) ==
    IF run.kind = "timeout"
    THEN toolResult(TRUE, firstFindings(run.detections), "Secrets scan timeout")
    ELSE toolResult(TRUE, firstFindings(run.detections), Undefined)

\* On its deadline the accessibility adapter stops reading files and returns
\* what it has, without an error.
runA11yAnalyzer(run) ==
    toolResult(TRUE, firstFindings(run.detections), Undefined)

runAdapter(i, run) ==
    CASE i = 1 -> runESLint(run)
      [] i = 2 -> runNpmAudit(run)
      [] i = 3 -> runSecretsScanner(run)
      [] OTHER -> runA11yAnalyzer(run)

\* runToolSafely without its try/catch: the adapter's exception rejects the
\* promise.
runToolSafely_noCatch(i, run) ==
    IF run.kind = "throws"
    THEN [rejected |-> TRUE,
          value |-> toolResult(FALSE, <<>>, "crashed")]
    ELSE [rejected |-> FALSE, value |-> runAdapter(i, run)]

\* runToolSafely(toolName, fn): the adapter's result, or the crash result
\* when fn throws.  rejected = TRUE would be a rejected promise.
runToolSafely(i, run) ==
    IF run.kind = "throws"
    THEN [rejected |-> FALSE,
          value |-> toolResult(FALSE, <<>>, "crashed")]
    ELSE [rejected |-> FALSE, value |-> runAdapter(i, run)]

----------------------------------------------------------------------------
(* Inputs: findings as the adapters build them, and parsed reply entries   *)

\* Ids are lower-case hex digests (generateFindingId).  The same detection
\* can occur twice in one list (two messages of one rule on one line).
FindingUniverse ==
    { finding("a1", "low", "m1", "src/a.js", 1, 1),
      finding("b2", "critical", "m2", "src/b.jsx", 2, 5),
      finding("c3", "low", "m3", Undefined, 0, 0),
      finding("d4", "high", "m4", "src/a.js", 7, 1),
      finding("e5", "medium", "m5", "src/b.jsx", 9, 2) }

\* The findings translatePanel is given: two of one severity and one of a
\* higher one.
PanelFindingUniverse == {f \in FindingUniverse : f.id \in {"a1", "b2", "c3"}}

item(id, plainLanguage, importance) ==
    [isObject |-> TRUE, id |-> id, plainLanguage |-> plainLanguage,
     context |-> "cA", reflection |-> "rA", importance |-> importance,
     panel |-> "secrets", commonApproaches |-> <<>>, staticAnalysisNote |-> Undefined]

\* Entries a reply can hold: right ids, an id in another letter case, padded
\* and over-long texts, a blank text, an entry without id, a non-object.
ItemA1 == item("a1", "tA", "important")
ItemA1Upper == item("A1", " tB ", "fyi")
ItemB2 == item("b2", "tB", "bogus")
ItemB2Blank == item("b2", "   ", "important")
ItemC3 ==
    [item("c3", LongText, Undefined) EXCEPT
        !.commonApproaches = <<(<<"x1", Null, "x2", "x3", "x4", "x5", "x6">>)>>,
        !.staticAnalysisNote = " tB "]
ItemNoId == item(Undefined, "tA", "note")

ItemUniverse == {ItemA1, ItemA1Upper, ItemB2, ItemB2Blank, ItemC3, ItemNoId, NoItem}
PanelItemUniverse == {ItemA1, ItemA1Upper, ItemB2}

FailureKinds == {"timeout", "network", "http_error", "empty"}
NoResponse == [kind |-> "none", parsed |-> <<>>]

ResponsesOver(items) ==
    {[kind |-> k, parsed |-> <<>>] : k \in FailureKinds}
    \cup {[kind |-> "ok", parsed |-> p] : p \in SeqsUpTo(items, MaxResp)}

----------------------------------------------------------------------------
(* SpecBatch: translateBatch on one batch                                  *)

BatchPanel == "dependencies"
NoBatchResult == [findings |-> <<>>, matchedCount |-> 0, fallbackCount |-> 0]

BatchParked ==
    /\ b_pc = "off" /\ b_findings = <<>>
    /\ b_response = NoResponse /\ b_result = NoBatchResult

PanelParked ==
    /\ t_pc = "off" /\ t_raw = <<>> /\ t_apiKey = FALSE
    /\ t_batchResults = <<>> /\ t_arrival = <<>> /\ t_responses = <<>>
    /\ t_record = FALSE /\ t_result = <<>> /\ t_panel = <<>>

CapParked ==
    /\ c_pc = "off" /\ c_given = <<>> /\ c_findings = <<>> /\ c_max = 0
    /\ c_result = <<>>

RateParked == incsToday = <<>> /\ lastCheck = <<>>

StatusParked ==
    /\ s_statuses = <<>> /\ s_tool = <<>> /\ s_translation = <<>>
    /\ s_overall = <<>> /\ s_panel = <<>>

IdsParked == i_tempDir = 0 /\ i_found = {}

OwnParked ==
    /\ k_pc = <<>> /\ k_dir = <<>> /\ k_dirs = {} /\ k_clock = 0
    /\ k_deletedInUse = {}

ParseParked == p_pc = "off" /\ p_text = <<>> /\ p_out = <<>>

DeadlineParked ==
    /\ d_pc = <<>> /\ d_batches = <<>> /\ d_timer = <<>>
    /\ d_passed = <<>> /\ d_late = <<>> /\ d_result = <<>>

OverlapParked ==
    /\ q_pc = <<>> /\ q_client = <<>> /\ q_seen = <<>> /\ q_outcome = <<>>
    /\ q_map = <<>> /\ q_today = 0 /\ q_reports = <<>> /\ q_overlap = FALSE

AsyncParked == DeadlineParked /\ OverlapParked

UnitParked ==
    /\ CapParked /\ RateParked /\ StatusParked /\ IdsParked /\ OwnParked
    /\ ParseParked /\ AsyncParked

OrchParked ==
    /\ pc = "off" /\ args = <<>> /\ normalizedUrl = <<>> /\ today = 0 /\ clock = 0
    /\ rateLimitMap = <<>> /\ fsDirs = {} /\ env = <<>> /\ tempDir = 0
    /\ createdDir = 0 /\ fetchResult = <<>> /\ toolResults = <<>>
    /\ calls = {} /\ crashed = {} /\ translations = <<>> /\ result = <<>> /\ mapAtCall = <<>>

\* A batch is a non-empty slice of at most BATCH_SIZE findings; the request
\* has been sent.
BatchInit ==
    /\ b_pc = "sent"
    /\ b_findings \in SeqsUpTo(FindingUniverse, BATCH_SIZE) \ {<<>>}
    /\ b_response = NoResponse
    /\ b_result = NoBatchResult
    /\ OrchParked /\ PanelParked /\ UnitParked

\* The request settles: a reply, an HTTP error, a timeout, a network error.
ServiceResponds(response) ==
    /\ b_pc = "sent"
    /\ b_response' = response
    /\ b_pc' = "received"
    /\ UNCHANGED <<b_findings, b_result>>
    /\ UNCHANGED <<orchVars, panelVars, unitVars>>

TranslateBatch ==
    /\ b_pc = "received"
    /\ b_result' = translateBatch(BatchPanel, b_findings, b_response)
    /\ b_pc' = "done"
    /\ UNCHANGED <<b_findings, b_response>>
    /\ UNCHANGED <<orchVars, panelVars, unitVars>>

BatchNext ==
    \/ \E response \in ResponsesOver(ItemUniverse) : ServiceResponds(response)
    \/ TranslateBatch

SpecBatch == BatchInit /\ [][BatchNext]_vars

----------------------------------------------------------------------------
(* SpecValidate: translateBatch on replies whose entries lack a text       *)

\* Entries with all three texts, and entries where one of them is missing,
\* is not a string, or is blank.
ValidationItems ==
    {ItemA1,
     [ItemA1 EXCEPT !.context = Undefined],
     [ItemA1 EXCEPT !.reflection = "   "],
     ItemB2,
     [ItemB2 EXCEPT !.context = Null],
     ItemB2Blank}

ValidateNext ==
    \/ \E response \in ResponsesOver(ValidationItems) : ServiceResponds(response)
    \/ TranslateBatch

SpecValidate == BatchInit /\ [][ValidateNext]_vars

----------------------------------------------------------------------------
(* SpecTranslate: translatePanel, its batches settling in any order        *)

TranslatePanelName == "secrets"

t_cap == capFindingsBySeverity(t_raw, MAX_FINDINGS_PER_PANEL)
t_batches == sliceBatches(t_cap.capped)

PanelInit ==
    /\ t_pc = "start"
    /\ t_raw \in SeqsUpTo(PanelFindingUniverse, MaxLen)
    /\ t_apiKey \in BOOLEAN
    /\ t_batchResults = <<>>
    /\ t_arrival = <<>>
    /\ t_responses = <<>>
    /\ t_record = FALSE
    /\ t_result = <<>>
    /\ t_panel = <<>>
    /\ OrchParked /\ BatchParked /\ UnitParked

\* translatePanel to its first await: an early return, or all batches sent.
TranslatePanelStart ==
    /\ t_pc = "start"
    /\ LET early == translatePanelEarly(TranslatePanelName, t_raw, t_apiKey)
       IN IF early # <<>>
          THEN t_result' = early /\ t_pc' = "done"
          ELSE t_result' = <<>> /\ t_pc' = "batches"
    /\ UNCHANGED <<t_raw, t_apiKey, t_batchResults, t_arrival, t_responses, t_record,
                   t_panel>>
    /\ UNCHANGED <<orchVars, batchVars, unitVars>>

\* Mutant of BatchSettles: a request that fails takes the batches that have
\* already settled down with it (one abort shared by all requests).
BatchSettles_failureSpreads(b, response) ==
    /\ t_pc = "batches"
    /\ b \in 1..Len(t_batches)
    /\ b \notin DOMAIN t_batchResults
    /\ t_batchResults' =
          [k \in DOMAIN t_batchResults \cup {b} |->
              IF k = b THEN translateBatch(TranslatePanelName, t_batches[b], response)
              ELSE IF response.kind \in FailureKinds
                   THEN allFallback(t_batches[k], TranslatePanelName, "UNEXPECTED_ERROR")
                   ELSE t_batchResults[k]]
    /\ t_arrival' = Append(t_arrival, b)
    /\ t_responses' = IF t_record
                      THEN [k \in DOMAIN t_responses \cup {b} |->
                               IF k = b THEN response ELSE t_responses[k]]
                      ELSE t_responses
    /\ UNCHANGED <<t_pc, t_raw, t_apiKey, t_record, t_result, t_panel>>
    /\ UNCHANGED <<orchVars, batchVars, unitVars>>

\* One translateBatch call settles; the calls run concurrently, so any
\* unsettled batch may be the next.
BatchSettles(b, response) ==
    /\ t_pc = "batches"
    /\ b \in 1..Len(t_batches)
    /\ b \notin DOMAIN t_batchResults
    /\ t_batchResults' =
          [k \in DOMAIN t_batchResults \cup {b} |->
              IF k = b THEN translateBatch(TranslatePanelName, t_batches[b], response)
              ELSE t_batchResults[k]]
    /\ t_arrival' = Append(t_arrival, b)
    /\ t_responses' = IF t_record
                      THEN [k \in DOMAIN t_responses \cup {b} |->
                               IF k = b THEN response ELSE t_responses[k]]
                      ELSE t_responses
    /\ UNCHANGED <<t_pc, t_raw, t_apiKey, t_record, t_result, t_panel>>
    /\ UNCHANGED <<orchVars, batchVars, unitVars>>

\* Mutant of TranslatePanelCombine: the results are combined in the order in
\* which the batches settled (t_arrival), not in batch order.
TranslatePanelCombine_arrivalOrder ==
    /\ t_pc = "batches"
    /\ DOMAIN t_batchResults = 1..Len(t_batches)
    /\ t_result' = <<combineBatches(TranslatePanelName, t_cap,
                        [k \in 1..Len(t_arrival) |-> t_batchResults[t_arrival[k]]])>>
    /\ t_pc' = "done"
    /\ UNCHANGED <<t_raw, t_apiKey, t_batchResults, t_arrival, t_responses, t_record,
                   t_panel>>
    /\ UNCHANGED <<orchVars, batchVars, unitVars>>

\* Promise.all resolves with the results in batch order; they are combined.
TranslatePanelCombine ==
    /\ t_pc = "batches"
    /\ DOMAIN t_batchResults = 1..Len(t_batches)
    /\ t_result' = <<combineBatches(TranslatePanelName, t_cap,
                        [b \in 1..Len(t_batches) |-> t_batchResults[b]])>>
    /\ t_pc' = "done"
    /\ UNCHANGED <<t_raw, t_apiKey, t_batchResults, t_arrival, t_responses, t_record,
                   t_panel>>
    /\ UNCHANGED <<orchVars, batchVars, unitVars>>

PanelNext ==
    \/ TranslatePanelStart
    \/ \E b \in 1..MAX_FINDINGS_PER_PANEL :
         \E response \in ResponsesOver(PanelItemUniverse) : BatchSettles(b, response)
    \/ TranslatePanelCombine

SpecTranslate == PanelInit /\ [][PanelNext]_vars

----------------------------------------------------------------------------
(* SpecIsolation: translatePanel with the fate of every request on record  *)

\* What a request can come to here: each failure, or a reply of at most
\* MaxIsoResp entries.
IsolationResponses ==
    {[kind |-> k, parsed |-> <<>>] : k \in FailureKinds}
    \cup {[kind |-> "ok", parsed |-> p] : p \in SeqsUpTo(PanelItemUniverse, MaxIsoResp)}

IsolationInit ==
    /\ t_pc = "start"
    /\ t_raw \in SeqsUpTo(PanelFindingUniverse, MAX_FINDINGS_PER_PANEL)
    /\ t_apiKey \in BOOLEAN
    /\ t_batchResults = <<>>
    /\ t_arrival = <<>>
    /\ t_responses = <<>>
    /\ t_record = TRUE
    /\ t_result = <<>>
    /\ t_panel = <<>>
    /\ OrchParked /\ BatchParked /\ UnitParked

IsolationNext ==
    \/ TranslatePanelStart
    \/ \E b \in 1..MAX_FINDINGS_PER_PANEL :
         \E response \in IsolationResponses : BatchSettles(b, response)
    \/ TranslatePanelCombine

SpecIsolation == IsolationInit /\ [][IsolationNext]_vars

----------------------------------------------------------------------------
(* SpecCap: capFindingsBySeverity on its own                               *)

Severities == {"critical", "high", "medium", "low"}

\* The i-th finding of a list has the i-th id, so that findings of one
\* severity can be told apart.
CapIds == <<"f1", "f2", "f3", "f4", "f5", "f6">>

CapInputs ==
    {[i \in 1..Len(sevs) |-> finding(CapIds[i], sevs[i], "m1", "src/a.js", i, 1)] :
        sevs \in SeqsUpTo(Severities, MaxCapLen)}

CapInit ==
    /\ c_pc = "called"
    /\ c_given \in CapInputs
    /\ c_findings = c_given
    /\ c_max \in 1..MAX_FINDINGS_PER_PANEL
    /\ c_result = <<>>
    /\ OrchParked /\ BatchParked /\ PanelParked /\ RateParked /\ StatusParked
    /\ IdsParked /\ OwnParked /\ ParseParked /\ AsyncParked

CapFindings ==
    /\ c_pc = "called"
    /\ c_result' = <<capFindingsBySeverity(c_findings, c_max)>>
    /\ c_findings' = argumentAfterCap(c_findings, c_max)
    /\ c_pc' = "done"
    /\ UNCHANGED <<c_given, c_max>>
    /\ UNCHANGED <<orchVars, batchVars, panelVars, rateVars, statusVars, idVars, ownVars, parseVars, asyncVars>>

CapNext == CapFindings

SpecCap == CapInit /\ [][CapNext]_vars

----------------------------------------------------------------------------
(* orchestrateScan.js: rate limiter, panel assembly                        *)

Clients == {"anonymous", "203.0.113.7"}

\* rateLimitMap.get(clientIp) of a client never stored.
NoEntry == [count |-> 0, resetDate |-> -1]

\* getResetTimeISO(): midnight UTC of the next day.
getResetTime(day) == day + 1

\* checkRateLimit with `canScan: entry.count <= MAX_SCANS_PER_DAY`.
checkRateLimit_offByOne(map, clientIp, day) ==
    LET entry == map[clientIp]
    IN IF entry = NoEntry \/ entry.resetDate # day
       THEN [scansToday |-> 0,
             maxScansPerDay |-> MAX_SCANS_PER_DAY,
             resetTime |-> getResetTime(day),
             remaining |-> MAX_SCANS_PER_DAY,
             canScan |-> TRUE]
       ELSE LET remaining == IF MAX_SCANS_PER_DAY - entry.count > 0
                             THEN MAX_SCANS_PER_DAY - entry.count ELSE 0
            IN [scansToday |-> entry.count,
                maxScansPerDay |-> MAX_SCANS_PER_DAY,
                resetTime |-> getResetTime(day),
                remaining |-> remaining,
                canScan |-> entry.count <= MAX_SCANS_PER_DAY]

\* checkRateLimit without Math.max(0, ...).
checkRateLimit_noClamp(map, clientIp, day) ==
    LET entry == map[clientIp]
    IN IF entry = NoEntry \/ entry.resetDate # day
       THEN [scansToday |-> 0,
             maxScansPerDay |-> MAX_SCANS_PER_DAY,
             resetTime |-> getResetTime(day),
             remaining |-> MAX_SCANS_PER_DAY,
             canScan |-> TRUE]
       ELSE LET remaining == MAX_SCANS_PER_DAY - entry.count
            IN [scansToday |-> entry.count,
                maxScansPerDay |-> MAX_SCANS_PER_DAY,
                resetTime |-> getResetTime(day),
                remaining |-> remaining,
                canScan |-> remaining > 0]

checkRateLimit(map, clientIp, day) ==
    LET entry == map[clientIp]
    IN IF entry = NoEntry \/ entry.resetDate # day
       THEN [scansToday |-> 0,
             maxScansPerDay |-> MAX_SCANS_PER_DAY,
             resetTime |-> getResetTime(day),
             remaining |-> MAX_SCANS_PER_DAY,
             canScan |-> TRUE]
       ELSE LET remaining == IF MAX_SCANS_PER_DAY - entry.count > 0
                             THEN MAX_SCANS_PER_DAY - entry.count ELSE 0
            IN [scansToday |-> entry.count,
                maxScansPerDay |-> MAX_SCANS_PER_DAY,
                resetTime |-> getResetTime(day),
                remaining |-> remaining,
                canScan |-> remaining > 0]

\* incrementRateLimit that adds to a record of an earlier day instead of
\* starting the day's count afresh.
incrementRateLimit_noReset(map, clientIp, day) ==
    LET entry == map[clientIp]
    IN IF entry = NoEntry
       THEN [map EXCEPT ![clientIp] = [count |-> 1, resetDate |-> day]]
       ELSE [map EXCEPT ![clientIp] = [count |-> entry.count + 1,
                                       resetDate |-> day]]

incrementRateLimit(map, clientIp, day) ==
    LET entry == map[clientIp]
    IN IF entry = NoEntry \/ entry.resetDate # day
       THEN [map EXCEPT ![clientIp] = [count |-> 1, resetDate |-> day]]
       ELSE [map EXCEPT ![clientIp] = [count |-> entry.count + 1,
                                       resetDate |-> entry.resetDate]]

\* calculateStatus with `some` in place of `every` in the first test.
calculateStatus_someSkipped(panelResults) ==
    IF \E i \in 1..Len(panelResults) : panelResults[i].status = "skipped"
    THEN "error"
    ELSE IF \E i \in 1..Len(panelResults) :
                panelResults[i].status \in {"partial", "skipped"}
    THEN "partial"
    ELSE "success"

\* Mutant of calculateStatus: one partial or skipped panel makes the scan an
\* error.
calculateStatus_partialIsError(panelResults) ==
    IF \E i \in 1..Len(panelResults) :
                panelResults[i].status \in {"partial", "skipped"}
    THEN "error"
    ELSE "success"

calculateStatus(panelResults) ==
    IF \A i \in 1..Len(panelResults) : panelResults[i].status = "skipped"
    THEN "error"
    ELSE IF \E i \in 1..Len(panelResults) :
                panelResults[i].status \in {"partial", "skipped"}
    THEN "partial"
    ELSE "success"

\* buildPanelResult that marks the panel of a failed tool as skipped.
buildPanelResult_skipped(panel, tool, translatedFindings) ==
    IF ~tool.success
    THEN [panel |-> panel, status |-> "skipped", findingCount |-> 0,
          findings |-> <<>>, statusReason |-> "tool_error",
          errorMessage |-> tool.error]
    ELSE [panel |-> panel, status |-> "success",
          findingCount |-> Len(translatedFindings),
          findings |-> translatedFindings, statusReason |-> Undefined,
          errorMessage |-> Undefined]

buildPanelResult(panel, tool, translatedFindings) ==
    IF ~tool.success
    THEN [panel |-> panel, status |-> "partial", findingCount |-> 0,
          findings |-> <<>>, statusReason |-> "tool_error",
          errorMessage |-> tool.error]
    ELSE [panel |-> panel, status |-> "success",
          findingCount |-> Len(translatedFindings),
          findings |-> translatedFindings, statusReason |-> Undefined,
          errorMessage |-> Undefined]

\* orchestrateScan without its "Handle translation failures" block.
applyTranslationFailure_missing(panelResult, translation) == panelResult

\* `if (translation?.status === 'failed') { panel.status = 'partial';
\*  panel.statusReason = 'translation_error' }`
applyTranslationFailure(panelResult, translation) ==
    IF translation.status = "failed"
    THEN [panelResult EXCEPT !.status = "partial",
                             !.statusReason = "translation_error"]
    ELSE panelResult

\* Steps 7 and 8 of orchestrateScan: the four panels, the overall status,
\* the partialReasons (the tools whose result has an error), the report.
assembleReport(repoUrl, tools, translated) ==
    LET allPanels ==
            [i \in 1..4 |->
                applyTranslationFailure(
                    buildPanelResult(Panels[i], tools[i], translated[i].findings),
                    translated[i])]
        partialReasons ==
            SelectSeq([i \in 1..4 |-> i], LAMBDA i : tools[i].error # Undefined)
    IN [repoUrl |-> repoUrl,
        status |-> calculateStatus(allPanels),
        partialReasons |-> partialReasons,
        panels |-> allPanels]

\* The value orchestrateScan resolves to on an error path.
errorResult(code, map, clientIp, day) ==
    [status |-> "error", code |-> code, report |-> <<>>,
     rateLimit |-> <<checkRateLimit(map, clientIp, day)>>]

NoResult == [status |-> "pending", code |-> Undefined, report |-> <<>>, rateLimit |-> <<>>]

----------------------------------------------------------------------------
(* SpecPanelReport: one panel from its findings to its place in the report *)

\* Mutant of PanelAssembled: the panel is downgraded whenever the
\* translation's status is not success.
PanelAssembled_anyFallback ==
    /\ t_pc = "done"
    /\ LET built == buildPanelResult(TranslatePanelName,
                                     toolResult(TRUE, t_raw, Undefined),
                                     t_result[1].findings)
       IN t_panel' = <<IF t_result[1].status # "success"
                       THEN [built EXCEPT !.status = "partial",
                                          !.statusReason = "translation_error"]
                       ELSE built>>
    /\ t_pc' = "assembled"
    /\ UNCHANGED <<t_raw, t_apiKey, t_batchResults, t_arrival, t_responses, t_record,
                   t_result>>
    /\ UNCHANGED <<orchVars, batchVars, unitVars>>

\* Steps 6 and 7 of orchestrateScan for one panel whose adapter succeeded
\* with the findings t_raw: buildPanelResult on the translated findings, then
\* the "Handle translation failures" block.
PanelAssembled ==
    /\ t_pc = "done"
    /\ t_panel' = <<applyTranslationFailure(
                       buildPanelResult(TranslatePanelName,
                                        toolResult(TRUE, t_raw, Undefined),
                                        t_result[1].findings),
                       t_result[1])>>
    /\ t_pc' = "assembled"
    /\ UNCHANGED <<t_raw, t_apiKey, t_batchResults, t_arrival, t_responses, t_record,
                   t_result>>
    /\ UNCHANGED <<orchVars, batchVars, unitVars>>

PanelReportNext ==
    \/ TranslatePanelStart
    \/ \E b \in 1..MAX_FINDINGS_PER_PANEL :
         \E response \in IsolationResponses : BatchSettles(b, response)
    \/ TranslatePanelCombine
    \/ PanelAssembled

SpecPanelReport == IsolationInit /\ [][PanelReportNext]_vars

----------------------------------------------------------------------------
(* The translation service as orchestrateScan meets it                     *)

\* Per panel, how the service answers its batches: every finding answered
\* under its id, only the first finding of a batch answered, or no answer
\* before the deadline.
ServiceBehaviours == {"echo", "first_only", "timeout"}

serviceResponse(behaviour, batch) ==
    CASE behaviour = "echo" ->
             [kind |-> "ok",
              parsed |-> [i \in 1..Len(batch) |-> item(batch[i].id, "tA", "note")]]
      [] behaviour = "first_only" ->
             [kind |-> "ok", parsed |-> <<item(batch[1].id, "tA", "note")>>]
      [] OTHER -> [kind |-> "timeout", parsed |-> <<>>]

\* translateAllPanels(panelsMap): translatePanel for each of the four panels.
translateAllPanels(panelFindings, apiKey, behaviour) ==
    [i \in 1..4 |->
        LET batches == sliceBatches(
                capFindingsBySeverity(panelFindings[i], MAX_FINDINGS_PER_PANEL).capped)
        IN translatePanel(Panels[i], panelFindings[i], apiKey,
               [b \in 1..Len(batches) |-> serviceResponse(behaviour[i], batches[b])])]

----------------------------------------------------------------------------
(* Spec: orchestrateScan, one invocation after another                     *)

UrlUniverse ==
    { url("https://github.com/", <<"owner", "repo">>, FALSE),
      url("http://github.com/", <<"owner", "repo">>, FALSE),
      url("https://github.com/", <<"owner", "repo", "tree">>, FALSE),
      url("", <<>>, FALSE),
      [isString |-> FALSE, prefix |-> "", path |-> <<>>, slash |-> FALSE] }

\* Records the table can hold for a client when a request arrives.
InitialEntries ==
    { NoEntry,
      [count |-> 1, resetDate |-> 1],
      [count |-> MAX_SCANS_PER_DAY, resetDate |-> 1],
      [count |-> MAX_SCANS_PER_DAY, resetDate |-> 0] }

Init ==
    /\ pc = "idle"
    /\ args = [repoUrl |-> url("", <<>>, FALSE), clientIp |-> "anonymous"]
    /\ normalizedUrl = <<>>
    /\ today = 1
    /\ clock = 0
    /\ rateLimitMap \in {m \in [Clients -> InitialEntries] :
                            m["203.0.113.7"] = [count |-> 1, resetDate |-> 1]}
    /\ fsDirs = {}
    /\ env \in {[apiKey |-> k] : k \in BOOLEAN}
    /\ tempDir = 0
    /\ createdDir = 0
    /\ fetchResult = <<>>
    /\ toolResults = <<>>
    /\ calls = {}
    /\ crashed = {}
    /\ translations = <<>>
    /\ result = NoResult
    /\ mapAtCall = rateLimitMap
    /\ BatchParked /\ PanelParked /\ UnitParked

\* The request handler calls orchestrateScan({repoUrl, clientIp}).
Call(repoUrl, clientIp) ==
    /\ pc \in {"idle", "returned"}
    /\ clock < MaxInvocations
    /\ pc' = "validate"
    /\ args' = [repoUrl |-> repoUrl, clientIp |-> clientIp]
    /\ normalizedUrl' = <<>>
    /\ clock' = clock + 1
    /\ tempDir' = 0
    /\ createdDir' = 0
    /\ fetchResult' = <<>>
    /\ toolResults' = <<>>
    /\ calls' = {}
    /\ crashed' = {}
    /\ translations' = <<>>
    /\ result' = NoResult
    /\ mapAtCall' = rateLimitMap
    /\ UNCHANGED <<today, rateLimitMap, fsDirs, env>>
    /\ UNCHANGED <<batchVars, panelVars, unitVars>>

\* The UTC date changes.
NextDay ==
    /\ today < MaxDay
    /\ today' = today + 1
    /\ UNCHANGED <<pc, args, normalizedUrl, clock, rateLimitMap, fsDirs, env, tempDir,
                   createdDir, fetchResult, toolResults, calls, crashed,
                   translations, result, mapAtCall>>
    /\ UNCHANGED <<batchVars, panelVars, unitVars>>

\* Step 1.  url.trim() throws on a repoUrl that is no string; the catch
\* block answers INTERNAL_ERROR.
ValidateUrl ==
    /\ pc = "validate"
    /\ LET validation == validateGithubUrl(args.repoUrl)
       IN IF ~args.repoUrl.isString
          THEN /\ result' = errorResult("INTERNAL_ERROR", rateLimitMap, args.clientIp, today)
               /\ pc' = "finally"
               /\ normalizedUrl' = normalizedUrl
          ELSE IF ~validation.isValid
          THEN /\ result' = errorResult("INVALID_GITHUB_URL", rateLimitMap, args.clientIp, today)
               /\ pc' = "finally"
               /\ normalizedUrl' = normalizedUrl
          ELSE /\ result' = result
               /\ pc' = "checkLimit"
               /\ normalizedUrl' = <<validation.normalizedUrl>>
    /\ UNCHANGED <<args, today, clock, rateLimitMap, fsDirs, env, tempDir,
                   createdDir, fetchResult, toolResults, calls, crashed,
                   translations, mapAtCall>>
    /\ UNCHANGED <<batchVars, panelVars, unitVars>>

\* Step 2 without the early return: the snapshot is taken, the scan goes on.
CheckLimit_ignoresLimit ==
    /\ pc = "checkLimit"
    /\ result' = result
    /\ pc' = "fetch"
    /\ UNCHANGED <<args, normalizedUrl, today, clock, rateLimitMap, fsDirs, env,
                   tempDir, createdDir, fetchResult, toolResults, calls, crashed,
                   translations, mapAtCall>>
    /\ UNCHANGED <<batchVars, panelVars, unitVars>>

\* Step 2.
CheckLimit ==
    /\ pc = "checkLimit"
    /\ LET rateLimit == checkRateLimit(rateLimitMap, args.clientIp, today)
       IN IF ~rateLimit.canScan
          THEN /\ result' = [status |-> "error", code |-> "RATE_LIMIT_EXCEEDED",
                             report |-> <<>>, rateLimit |-> <<rateLimit>>]
               /\ pc' = "finally"
          ELSE /\ result' = result
               /\ pc' = "fetch"
    /\ UNCHANGED <<args, normalizedUrl, today, clock, rateLimitMap, fsDirs, env,
                   tempDir, createdDir, fetchResult, toolResults, calls, crashed,
                   translations, mapAtCall>>
    /\ UNCHANGED <<batchVars, panelVars, unitVars>>

\* Step 3 without the `if (!fetchResult.success)` return: tempDir is set from
\* whatever came back and the analyzers run.
FetchRepo_ignoresFailure(outcome) ==
    /\ pc = "fetch"
    /\ LET fetched == fetchGitHubRepo(normalizedUrl[1], outcome, clock, fsDirs)
       IN /\ fsDirs' = fetched.dirs
          /\ createdDir' = fetched.made
          /\ calls' = calls \cup {"fetchGitHubRepo"}
          /\ fetchResult' = <<[threw |-> fetched.threw, success |-> fetched.success,
                               tempDir |-> fetched.tempDir, error |-> fetched.error]>>
          /\ IF fetched.threw
             THEN /\ result' = errorResult("INTERNAL_ERROR", rateLimitMap, args.clientIp, today)
                  /\ pc' = "finally"
                  /\ tempDir' = tempDir
             ELSE /\ result' = result
                  /\ pc' = "analyze"
                  /\ tempDir' = fetched.tempDir
    /\ UNCHANGED <<args, normalizedUrl, today, clock, rateLimitMap, env,
                   toolResults, crashed, translations, mapAtCall>>
    /\ UNCHANGED <<batchVars, panelVars, unitVars>>

\* Step 3 outside any try block: an exception out of fetchGitHubRepo rejects
\* the promise of orchestrateScan and no result is made.
FetchRepo_noCatch(outcome) ==
    /\ pc = "fetch"
    /\ LET fetched == fetchGitHubRepo(normalizedUrl[1], outcome, clock, fsDirs)
       IN /\ fsDirs' = fetched.dirs
          /\ createdDir' = fetched.made
          /\ calls' = calls \cup {"fetchGitHubRepo"}
          /\ fetchResult' = <<[threw |-> fetched.threw, success |-> fetched.success,
                               tempDir |-> fetched.tempDir, error |-> fetched.error]>>
          /\ IF fetched.threw
             THEN /\ result' = result
                  /\ pc' = "finally"
                  /\ tempDir' = tempDir
             ELSE IF ~fetched.success
             THEN /\ result' = errorResult("REPO_NOT_FOUND", rateLimitMap, args.clientIp, today)
                  /\ pc' = "finally"
                  /\ tempDir' = tempDir
             ELSE /\ result' = result
                  /\ pc' = "analyze"
                  /\ tempDir' = fetched.tempDir
    /\ UNCHANGED <<args, normalizedUrl, today, clock, rateLimitMap, env,
                   toolResults, crashed, translations, mapAtCall>>
    /\ UNCHANGED <<batchVars, panelVars, unitVars>>

\* Step 3: await fetchGitHubRepo(normalizedUrl, scanMode).  An exception out
\* of it reaches the catch block with `tempDir` still null.
FetchRepo(outcome) ==
    /\ pc = "fetch"
    /\ LET fetched == fetchGitHubRepo(normalizedUrl[1], outcome, clock, fsDirs)
       IN /\ fsDirs' = fetched.dirs
          /\ createdDir' = fetched.made
          /\ calls' = calls \cup {"fetchGitHubRepo"}
          /\ fetchResult' = <<[threw |-> fetched.threw, success |-> fetched.success,
                               tempDir |-> fetched.tempDir, error |-> fetched.error]>>
          /\ IF fetched.threw
             THEN /\ result' = errorResult("INTERNAL_ERROR", rateLimitMap, args.clientIp, today)
                  /\ pc' = "finally"
                  /\ tempDir' = tempDir
             ELSE IF ~fetched.success
             THEN /\ result' = errorResult("REPO_NOT_FOUND", rateLimitMap, args.clientIp, today)
                  /\ pc' = "finally"
                  /\ tempDir' = tempDir
             ELSE /\ result' = result
                  /\ pc' = "analyze"
                  /\ tempDir' = fetched.tempDir
    /\ UNCHANGED <<args, normalizedUrl, today, clock, rateLimitMap, env,
                   toolResults, crashed, translations, mapAtCall>>
    /\ UNCHANGED <<batchVars, panelVars, unitVars>>

\* Step 5: the elements of the Promise.all array, built in order.  The
\* adapters are synchronous, so each runs to its end when its element is
\* built.  Without package.json npm audit is not run.  A rejected element
\* rejects Promise.all and the catch block answers INTERNAL_ERROR.
RunTool(run, hasPackageJson) ==
    /\ pc = "analyze"
    /\ Len(toolResults) < 4
    /\ LET i == Len(toolResults) + 1
           skipped == (i = 2 /\ ~hasPackageJson)
           safely == IF skipped
                     THEN [rejected |-> FALSE, value |-> toolResult(TRUE, <<>>, Undefined)]
                     ELSE runToolSafely(i, run)
       IN /\ run \in AdapterRuns(i)
          /\ calls' = IF skipped THEN calls ELSE calls \cup {Tools[i]}
          /\ crashed' = IF ~skipped /\ run.kind = "throws"
                        THEN crashed \cup {i} ELSE crashed
          /\ toolResults' = Append(toolResults, safely.value)
          /\ IF safely.rejected
             THEN /\ result' = errorResult("INTERNAL_ERROR", rateLimitMap, args.clientIp, today)
                  /\ pc' = "finally"
             ELSE /\ result' = result
                  /\ pc' = IF i = 4 THEN "translate" ELSE "analyze"
    /\ UNCHANGED <<args, normalizedUrl, today, clock, rateLimitMap, fsDirs, env,
                   tempDir, createdDir, fetchResult, translations, mapAtCall>>
    /\ UNCHANGED <<batchVars, panelVars, unitVars>>

\* Step 6 without the await of Promise.all: the translation is started with
\* the findings of the adapters that have returned so far.
TranslateAllPanels_noBarrier(behaviour) ==
    /\ pc \in {"analyze", "translate"}
    /\ Len(toolResults) >= 1
    /\ LET found == [i \in 1..4 |-> IF i <= Len(toolResults)
                                    THEN toolResults[i].findings ELSE <<>>]
       IN /\ \A i \in 1..4 : (found[i] = <<>> \/ ~env.apiKey) => behaviour[i] = "echo"
          /\ translations' = translateAllPanels(found, env.apiKey, behaviour)
    /\ calls' = calls \cup {"translateAllPanels"}
    /\ pc' = IF Len(toolResults) = 4 THEN "assemble" ELSE pc
    /\ UNCHANGED <<args, normalizedUrl, today, clock, rateLimitMap, fsDirs, env,
                   tempDir, createdDir, fetchResult, toolResults, crashed,
                   result, mapAtCall>>
    /\ UNCHANGED <<batchVars, panelVars, unitVars>>

\* Step 6: await translateAllPanels(panelsMap).  The service is asked only
\* for a panel that has findings, and only when the API key is set.
TranslateAllPanels(behaviour) ==
    /\ pc = "translate"
    /\ \A i \in 1..4 :
          (toolResults[i].findings = <<>> \/ ~env.apiKey) => behaviour[i] = "echo"
    /\ translations' = translateAllPanels([i \in 1..4 |-> toolResults[i].findings],
                                          env.apiKey, behaviour)
    /\ calls' = calls \cup {"translateAllPanels"}
    /\ pc' = "assemble"
    /\ UNCHANGED <<args, normalizedUrl, today, clock, rateLimitMap, fsDirs, env,
                   tempDir, createdDir, fetchResult, toolResults, crashed,
                   result, mapAtCall>>
    /\ UNCHANGED <<batchVars, panelVars, unitVars>>

\* Steps 7 to 9 and the return: the report, incrementRateLimit, the result
\* with the snapshot taken after the increment.
AssembleReport ==
    /\ pc = "assemble"
    /\ LET report == assembleReport(normalizedUrl[1], toolResults, translations)
           incremented == incrementRateLimit(rateLimitMap, args.clientIp, today)
       IN /\ rateLimitMap' = incremented
          /\ result' = [status |-> report.status, code |-> Undefined,
                        report |-> <<report>>,
                        rateLimit |-> <<checkRateLimit(incremented, args.clientIp, today)>>]
    /\ pc' = "finally"
    /\ UNCHANGED <<args, normalizedUrl, today, clock, fsDirs, env, tempDir,
                   createdDir, fetchResult, toolResults, calls, crashed,
                   translations, mapAtCall>>
    /\ UNCHANGED <<batchVars, panelVars, unitVars>>

\* finally { if (tempDir) cleanupDir(tempDir) }, then the promise resolves
\* with the value the try or the catch block returned.  When fs.rmSync throws
\* (cleanupFails), cleanupDir's own catch logs it and the directory stays.
Finally(cleanupFails) ==
    /\ pc = "finally"
    /\ cleanupFails => tempDir # 0
    /\ fsDirs' = IF tempDir # 0 /\ ~cleanupFails
                 THEN cleanupDir(fsDirs, tempDir) ELSE fsDirs
    /\ pc' = "returned"
    /\ UNCHANGED <<args, normalizedUrl, today, clock, rateLimitMap, env, tempDir,
                   createdDir, fetchResult, toolResults, calls, crashed,
                   translations, result, mapAtCall>>
    /\ UNCHANGED <<batchVars, panelVars, unitVars>>

Next ==
    \/ \E u \in UrlUniverse, c \in Clients : Call(u, c)
    \/ NextDay
    \/ ValidateUrl
    \/ CheckLimit
    \/ \E outcome \in FetchOutcomes : FetchRepo(outcome)
    \/ \E run \in UNION {AdapterRuns(i) : i \in 1..4}, hasPackageJson \in BOOLEAN :
          RunTool(run, hasPackageJson)
    \/ \E behaviour \in [1..4 -> ServiceBehaviours] : TranslateAllPanels(behaviour)
    \/ AssembleReport
    \/ \E cleanupFails \in BOOLEAN : Finally(cleanupFails)

Spec == Init /\ [][Next]_vars

----------------------------------------------------------------------------
(* SpecRate: checkRateLimit and incrementRateLimit called in any order     *)

scanVars == <<pc, args, normalizedUrl, clock, fsDirs, env, tempDir, createdDir,
              fetchResult, toolResults, calls, crashed, translations, result,
              mapAtCall>>

ScanParked ==
    /\ pc = "off" /\ args = <<>> /\ normalizedUrl = <<>> /\ clock = 0
    /\ fsDirs = {} /\ env = <<>> /\ tempDir = 0 /\ createdDir = 0
    /\ fetchResult = <<>> /\ toolResults = <<>> /\ calls = {} /\ crashed = {}
    /\ translations = <<>> /\ result = <<>> /\ mapAtCall = <<>>

\* `const rateLimitMap = new Map()` when the module is loaded.
RateInit ==
    /\ rateLimitMap = [c \in Clients |-> NoEntry]
    /\ today = 1
    /\ incsToday = [c \in Clients |-> 0]
    /\ lastCheck = <<>>
    /\ ScanParked /\ BatchParked /\ PanelParked /\ CapParked /\ StatusParked
    /\ IdsParked /\ OwnParked /\ ParseParked /\ AsyncParked

\* checkRateLimit(clientIp) with rateLimitMap.delete of a record of an
\* earlier day.
CheckRateLimit_eagerReset(clientIp) ==
    /\ lastCheck' = <<[clientIp |-> clientIp, day |-> today,
                       entry |-> rateLimitMap[clientIp],
                       incs |-> incsToday[clientIp],
                       result |-> checkRateLimit(rateLimitMap, clientIp, today)]>>
    /\ rateLimitMap' =
          IF rateLimitMap[clientIp].resetDate # today
          THEN [rateLimitMap EXCEPT ![clientIp] = NoEntry]
          ELSE rateLimitMap
    /\ UNCHANGED <<today, incsToday>>
    /\ UNCHANGED <<scanVars, batchVars, panelVars, capVars, statusVars, idVars, ownVars, parseVars, asyncVars>>

\* checkRateLimit(clientIp): reads the record, writes nothing.
CheckRateLimit(clientIp) ==
    /\ lastCheck' = <<[clientIp |-> clientIp, day |-> today,
                       entry |-> rateLimitMap[clientIp],
                       incs |-> incsToday[clientIp],
                       result |-> checkRateLimit(rateLimitMap, clientIp, today)]>>
    /\ rateLimitMap' = rateLimitMap
    /\ UNCHANGED <<today, incsToday>>
    /\ UNCHANGED <<scanVars, batchVars, panelVars, capVars, statusVars, idVars, ownVars, parseVars, asyncVars>>

\* incrementRateLimit(clientIp).  The function itself has no upper limit.
IncrementRateLimit(clientIp) ==
    /\ incsToday[clientIp] < MAX_SCANS_PER_DAY + MaxOver
    /\ rateLimitMap' = incrementRateLimit(rateLimitMap, clientIp, today)
    /\ incsToday' = [incsToday EXCEPT ![clientIp] = @ + 1]
    /\ UNCHANGED <<today, lastCheck>>
    /\ UNCHANGED <<scanVars, batchVars, panelVars, capVars, statusVars, idVars, ownVars, parseVars, asyncVars>>

\* The UTC date changes.
RateNextDay ==
    /\ today < MaxDay
    /\ today' = today + 1
    /\ incsToday' = [c \in Clients |-> 0]
    /\ UNCHANGED <<rateLimitMap, lastCheck>>
    /\ UNCHANGED <<scanVars, batchVars, panelVars, capVars, statusVars, idVars, ownVars, parseVars, asyncVars>>

RateNext ==
    \/ \E c \in Clients : CheckRateLimit(c)
    \/ \E c \in Clients : IncrementRateLimit(c)
    \/ RateNextDay

SpecRate == RateInit /\ [][RateNext]_vars

----------------------------------------------------------------------------
(* SpecStatus: calculateStatus and the panel assembly on their own         *)

PanelStatuses == {"success", "partial", "skipped"}

ToolResults ==
    { toolResult(TRUE, <<>>, Undefined),
      toolResult(TRUE, <<>>, "ESLint timeout"),
      toolResult(FALSE, <<>>, "crashed") }

TranslationResults ==
    {[status |-> st, findings |-> <<>>] : st \in {"success", "partial", "failed"}}

StatusInit ==
    /\ s_statuses \in [1..4 -> {[status |-> st] : st \in PanelStatuses}]
    /\ s_tool \in ToolResults
    /\ s_translation \in TranslationResults
    /\ s_overall = <<>>
    /\ s_panel = <<>>
    /\ OrchParked /\ BatchParked /\ PanelParked /\ CapParked /\ RateParked
    /\ IdsParked /\ OwnParked /\ ParseParked /\ AsyncParked

CalculateStatus ==
    /\ s_overall = <<>>
    /\ s_overall' = <<calculateStatus(s_statuses)>>
    /\ UNCHANGED <<s_statuses, s_tool, s_translation, s_panel>>
    /\ UNCHANGED <<orchVars, batchVars, panelVars, capVars, rateVars, idVars, ownVars, parseVars, asyncVars>>

\* Step 7 for one panel: buildPanelResult, then the translation failure.
BuildPanel ==
    /\ s_panel = <<>>
    /\ s_panel' = <<applyTranslationFailure(
                       buildPanelResult("code_quality", s_tool, s_translation.findings),
                       s_translation)>>
    /\ UNCHANGED <<s_statuses, s_tool, s_translation, s_overall>>
    /\ UNCHANGED <<orchVars, batchVars, panelVars, capVars, rateVars, idVars, ownVars, parseVars, asyncVars>>

StatusNext == CalculateStatus \/ BuildPanel

SpecStatus == StatusInit /\ [][StatusNext]_vars

----------------------------------------------------------------------------
(* Finding ids: generateFindingId in the four adapters                     *)

\* A path: the directory it lies under (0: none) and the path inside it.
\* `/tmp/lumen-<dir>/<rel>` is path(dir, rel), and `<rel>` is path(0, rel).
path(dir, rel) == [dir |-> dir, rel |-> rel]

\* filePath.replace(tempDir, '').replace(/^\//, ''), and stripTempPrefix.
stripTempDir(filePath, tmpDir) ==
    IF filePath.dir = tmpDir THEN path(0, filePath.rel) ELSE filePath

\* The strings that go into a digest, as numbers.
StringCode(str) ==
    CASE str = "code_quality" -> 11 [] str = "eslint" -> 12
      [] str = "secrets" -> 13 [] str = "secrets_regex" -> 14
      [] str = "dependencies" -> 15 [] str = "npm_audit" -> 16
      [] str = "no-unused-vars" -> 21 [] str = "unknown" -> 22
      [] str = "aws_key" -> 23 [] str = "token_generic" -> 24
      [] str = "missing_alt" -> 25 [] str = "heading_hierarchy" -> 26
      [] str = "lodash" -> 27 [] str = "Prototype Pollution" -> 28
      [] str = "high" -> 31 [] str = "low" -> 32
      [] str = "src/a.js" -> 41 [] str = "src/b.jsx" -> 42
      [] OTHER -> 99

PathCode(p) == p.dir * 101 + StringCode(p.rel)

\* createHash('sha256').update(input).digest('hex'), cut to the digits kept:
\* a digest of the parts of the input string, in their order.
RECURSIVE sha256Hex(_, _)
sha256Hex(codes, h) ==
    IF codes = <<>> THEN h
    ELSE sha256Hex(Tail(codes), (h * 31 + Head(codes)) % HashSpace)

\* runESLint.js generateFindingId: the first 16 digits.
eslintFindingId(panel, tool, ruleId, file, line) ==
    [prefix |-> "",
     hash |-> sha256Hex(<<StringCode(panel), StringCode(tool), StringCode(ruleId),
                          PathCode(file), line>>, 7)]

\* The secrets scanner's generateFindingId.
secretsFindingId(patternId, file, line) ==
    [prefix |-> "",
     hash |-> sha256Hex(<<StringCode("secrets"), StringCode("secrets_regex"),
                          StringCode(patternId), PathCode(file), line>>, 7)]

\* runA11yAnalyzer.js generateFindingId: `a11y_` and the first 12 digits.
a11yFindingId(patternId, filePath, line) ==
    [prefix |-> "a11y_",
     hash |-> sha256Hex(<<StringCode(patternId), PathCode(filePath), line>>, 7) \div 16]

\* npm audit's generateFindingId.
npmFindingId(packageName, severity, via) ==
    [prefix |-> "",
     hash |-> sha256Hex(<<StringCode("dependencies"), StringCode("npm_audit"),
                          StringCode(packageName), StringCode(severity),
                          StringCode(via)>>, 7)]

\* What a finding says of its detection: panel, tool, the rule or pattern
\* (for npm audit the package, its vulnerability and npm's severity), file
\* and line.
detected(id, panel, tool, rule, detail, file, line) ==
    [id |-> id, panel |-> panel, tool |-> tool, rule |-> rule, detail |-> detail,
     file |-> file, line |-> line]

\* Mutant of eslintFinding: the id is made from fileResult.filePath, the path
\* under the temp directory, and the file property from relativePath.
eslintFinding_absolutePathId(tmpDir, filePath, msg) ==
    LET relativePath == stripTempDir(filePath, tmpDir)
        ruleId == IF msg.ruleId = Null THEN "unknown" ELSE msg.ruleId
    IN detected(eslintFindingId("code_quality", "eslint", ruleId, filePath, msg.line),
                "code_quality", "eslint", ruleId, Undefined, relativePath, msg.line)

\* runESLint: the finding built from one message of one file result.
eslintFinding(tmpDir, filePath, msg) ==
    LET relativePath == stripTempDir(filePath, tmpDir)
        ruleId == IF msg.ruleId = Null THEN "unknown" ELSE msg.ruleId
    IN detected(eslintFindingId("code_quality", "eslint", ruleId, relativePath, msg.line),
                "code_quality", "eslint", ruleId, Undefined, relativePath, msg.line)

\* scanFileForSecrets: pattern.regex matched line lineNum (counted from 0).
secretsFinding(tmpDir, filePath, patternId, lineNum) ==
    LET relativePath == stripTempDir(filePath, tmpDir)
    IN detected(secretsFindingId(patternId, relativePath, lineNum + 1),
                "secrets", "secrets_regex", patternId, Undefined,
                relativePath, lineNum + 1)

\* scanFileForA11y and detectHeadingHierarchyIssues: a match on `line`.
a11yFinding(tmpDir, filePath, patternId, line) ==
    LET relativePath == stripTempDir(filePath, tmpDir)
    IN detected(a11yFindingId(patternId, relativePath, line),
                "accessibility", "a11y_analyzer", patternId, Undefined,
                relativePath, line)

\* runNpmAudit: one entry of auditData.vulnerabilities.  vuln.severity may
\* be missing: the id takes 'low', metadata.npmSeverity takes 'unknown'.
npmFinding(packageName, vuln) ==
    LET viaInfo == IF vuln.via = Undefined THEN "unknown" ELSE vuln.via
        idSeverity == IF vuln.severity = Undefined THEN "low" ELSE vuln.severity
        npmSeverity == IF vuln.severity = Undefined THEN "unknown" ELSE vuln.severity
    IN detected(npmFindingId(packageName, idSeverity, viaInfo),
                "dependencies", "npm_audit", packageName, <<viaInfo, npmSeverity>>,
                path(0, "package.json"), 1)

----------------------------------------------------------------------------
(* SpecIds: one repository scanned again and again, each scan in its own   *)
(* temp directory                                                          *)

RepoFiles == {"src/a.js", "src/b.jsx"}
RepoLines == {1, 2}
EslintRules == {"no-unused-vars", Null}
SecretPatternIds == {"aws_key", "token_generic"}
A11yPatternIds == {"missing_alt", "heading_hierarchy"}
Vulnerabilities ==
    {[severity |-> sev, via |-> via] :
        sev \in {"high", Undefined}, via \in {"Prototype Pollution", Undefined}}

IdsInit ==
    /\ i_tempDir = 1
    /\ i_found = {}
    /\ OrchParked /\ BatchParked /\ PanelParked
    /\ CapParked /\ RateParked /\ StatusParked /\ OwnParked /\ ParseParked /\ AsyncParked

Record(f) ==
    /\ Cardinality(i_found) < MaxFound
    /\ i_found' = i_found \cup {[scan |-> i_tempDir, finding |-> f]}
    /\ UNCHANGED i_tempDir
    /\ UNCHANGED <<orchVars, batchVars, panelVars, capVars, rateVars, statusVars, ownVars, parseVars, asyncVars>>

\* The next scan: fetchGitHubRepo makes another temp directory.
NextScan ==
    /\ i_tempDir < MaxScans
    /\ i_tempDir' = i_tempDir + 1
    /\ UNCHANGED i_found
    /\ UNCHANGED <<orchVars, batchVars, panelVars, capVars, rateVars, statusVars, ownVars, parseVars, asyncVars>>

EslintReports(rel, msg) ==
    Record(eslintFinding(i_tempDir, path(i_tempDir, rel), msg))

SecretMatches(rel, patternId, lineNum) ==
    Record(secretsFinding(i_tempDir, path(i_tempDir, rel), patternId, lineNum))

A11yMatches(rel, patternId, line) ==
    Record(a11yFinding(i_tempDir, path(i_tempDir, rel), patternId, line))

NpmReports(packageName, vuln) ==
    Record(npmFinding(packageName, vuln))

IdsNext ==
    \/ NextScan
    \/ \E rel \in RepoFiles, ruleId \in EslintRules, line \in RepoLines :
          EslintReports(rel, [ruleId |-> ruleId, line |-> line])
    \/ \E rel \in RepoFiles, patternId \in SecretPatternIds, line \in RepoLines :
          SecretMatches(rel, patternId, line - 1)
    \/ \E rel \in RepoFiles, patternId \in A11yPatternIds, line \in RepoLines :
          A11yMatches(rel, patternId, line)
    \/ \E vuln \in Vulnerabilities : NpmReports("lodash", vuln)

SpecIds == IdsInit /\ [][IdsNext]_vars

----------------------------------------------------------------------------
(* SpecConcurrent: orchestrateScan invocations running at the same time,   *)
(* seen through their temp directories                                     *)

\* The invocations in flight: two requests the server is handling.
Invocations == {1, 2}

\* The invocations, other than inv, that hold directory dir: they are
\* downloading into it, or have analysed it and have not cleaned up yet.
HoldersOf(dir, inv) ==
    {other \in Invocations \ {inv} : k_pc[other] # "idle" /\ k_dir[other] = dir}

\* The invocations, other than inv, still reading or writing directory dir.
UsersOf(dir, inv) ==
    {other \in Invocations \ {inv} : k_pc[other] = "fetching" /\ k_dir[other] = dir}

ConcurrentInit ==
    /\ k_pc = [inv \in Invocations |-> "idle"]
    /\ k_dir = [inv \in Invocations |-> 0]
    /\ k_dirs = {}
    /\ k_clock = 1
    /\ k_deletedInUse = {}
    /\ OrchParked /\ BatchParked /\ PanelParked
    /\ CapParked /\ RateParked /\ StatusParked /\ IdsParked /\ ParseParked /\ AsyncParked

\* Time passes between two steps of the event loop, or does not.
ClockTicks ==
    /\ k_clock < MaxClock
    /\ k_clock' = k_clock + 1
    /\ UNCHANGED <<k_pc, k_dir, k_dirs, k_deletedInUse>>
    /\ UNCHANGED <<orchVars, batchVars, panelVars, capVars, rateVars, statusVars, idVars, parseVars, asyncVars>>

\* orchestrateScan up to the first await of fetchGitHubRepo: the URL is
\* valid, the limit not reached, tempDir = `/tmp/lumen-${Date.now()}` and
\* mkdirSync(tempDir, {recursive: true}), which accepts an existing directory.
ScanStarts(inv) ==
    /\ k_pc[inv] = "idle"
    /\ k_pc' = [k_pc EXCEPT ![inv] = "fetching"]
    /\ k_dir' = [k_dir EXCEPT ![inv] = k_clock]
    /\ k_dirs' = k_dirs \cup {k_clock}
    /\ UNCHANGED <<k_clock, k_deletedInUse>>
    /\ UNCHANGED <<orchVars, batchVars, panelVars, capVars, rateVars, statusVars, idVars, parseVars, asyncVars>>

\* The tree request or the download fails: fetchGitHubRepo calls
\* cleanupDir(tempDir) and returns success: false; orchestrateScan returns
\* REPO_NOT_FOUND, its own tempDir still null.
FetchFails(inv) ==
    /\ k_pc[inv] = "fetching"
    /\ k_dirs' = cleanupDir(k_dirs, k_dir[inv])
    /\ k_deletedInUse' = k_deletedInUse \cup UsersOf(k_dir[inv], inv)
    /\ k_pc' = [k_pc EXCEPT ![inv] = "idle"]
    /\ k_dir' = [k_dir EXCEPT ![inv] = 0]
    /\ UNCHANGED k_clock
    /\ UNCHANGED <<orchVars, batchVars, panelVars, capVars, rateVars, statusVars, idVars, parseVars, asyncVars>>

\* The download ends; orchestrateScan takes tempDir from the result and runs
\* the four adapters, which are synchronous, on it; then it awaits the
\* translation.
FetchSucceedsAndAnalyze(inv) ==
    /\ k_pc[inv] = "fetching"
    /\ k_pc' = [k_pc EXCEPT ![inv] = "translating"]
    /\ UNCHANGED <<k_dir, k_dirs, k_clock, k_deletedInUse>>
    /\ UNCHANGED <<orchVars, batchVars, panelVars, capVars, rateVars, statusVars, idVars, parseVars, asyncVars>>

\* The translation is back, the report is returned, and the finally block
\* runs cleanupDir(tempDir).
ScanFinally(inv) ==
    /\ k_pc[inv] = "translating"
    /\ k_dirs' = cleanupDir(k_dirs, k_dir[inv])
    /\ k_deletedInUse' = k_deletedInUse \cup UsersOf(k_dir[inv], inv)
    /\ k_pc' = [k_pc EXCEPT ![inv] = "idle"]
    /\ k_dir' = [k_dir EXCEPT ![inv] = 0]
    /\ UNCHANGED k_clock
    /\ UNCHANGED <<orchVars, batchVars, panelVars, capVars, rateVars, statusVars, idVars, parseVars, asyncVars>>

ConcurrentNext ==
    \/ ClockTicks
    \/ \E inv \in Invocations : ScanStarts(inv)
    \/ \E inv \in Invocations : FetchFails(inv)
    \/ \E inv \in Invocations : FetchSucceedsAndAnalyze(inv)
    \/ \E inv \in Invocations : ScanFinally(inv)

SpecConcurrent == ConcurrentInit /\ [][ConcurrentNext]_vars

----------------------------------------------------------------------------
(* parseClaudeResponse                                                     *)

\* A reply text is a sequence of chunks:
\*   "prose"       words, no bracket and no brace
\*   "7"           a number
\*   "[" and "]"   the brackets of an array
\*   "{a1}"        a flat object, valid JSON, with id a1
\*   "{bad}"       a flat pair of braces around something that is not JSON
\*   "{findings:"  the opening of an object up to the value of its property
\*                 `findings`, and "}" its closing brace
\* Arrays of the texts have no commas, so they hold at most one element.
Chunks == {"prose", "7", "[", "]", "{a1}", "{bad}", "{findings:", "}"}

jsonValue(kind, id, items) == [kind |-> kind, id |-> id, items |-> items]
NoValue == jsonValue("none", Undefined, <<>>)
parseFailure == [ok |-> FALSE, next |-> 0, value |-> NoValue]

\* JSON.parse reading one value from chunk i on.
RECURSIVE parseValue(_, _)
parseValue(text, i) ==
    IF i > Len(text) THEN parseFailure
    ELSE CASE text[i] = "{a1}" ->
                  [ok |-> TRUE, next |-> i + 1, value |-> jsonValue("object", "a1", <<>>)]
           [] text[i] = "7" ->
                  [ok |-> TRUE, next |-> i + 1, value |-> jsonValue("number", Undefined, <<>>)]
           [] text[i] = "[" ->
                  IF i + 1 <= Len(text) /\ text[i + 1] = "]"
                  THEN [ok |-> TRUE, next |-> i + 2,
                        value |-> jsonValue("array", Undefined, <<>>)]
                  ELSE LET v == parseValue(text, i + 1)
                       IN IF v.ok /\ v.next <= Len(text) /\ text[v.next] = "]"
                          THEN [ok |-> TRUE, next |-> v.next + 1,
                                value |-> jsonValue("array", Undefined, <<v.value>>)]
                          ELSE parseFailure
           [] text[i] = "{findings:" ->
                  LET v == parseValue(text, i + 1)
                  IN IF v.ok /\ v.next <= Len(text) /\ text[v.next] = "}"
                     THEN [ok |-> TRUE, next |-> v.next + 1,
                           value |-> jsonValue("wrapper", Undefined, <<v.value>>)]
                     ELSE parseFailure
           [] OTHER -> parseFailure

\* JSON.parse(text): <<value>>, or <<>> where it throws a SyntaxError.
jsonParse(text) ==
    LET v == parseValue(text, 1)
    IN IF v.ok /\ v.next = Len(text) + 1 THEN <<v.value>> ELSE <<>>

\* Tier 1: the whole text; an array, the array under a wrapper key, or the
\* object itself.  yields = FALSE where the code goes on to tier 2.
tier1(text) ==
    LET parsed == jsonParse(text)
    IN IF parsed = <<>> THEN [yields |-> FALSE, parsed |-> <<>>]
       ELSE CASE parsed[1].kind = "array" ->
                     [yields |-> TRUE, parsed |-> parsed[1].items]
              [] parsed[1].kind = "wrapper" ->
                     IF parsed[1].items[1].kind = "array"
                     THEN [yields |-> TRUE, parsed |-> parsed[1].items[1].items]
                     ELSE [yields |-> TRUE, parsed |-> parsed]
              [] parsed[1].kind = "object" -> [yields |-> TRUE, parsed |-> parsed]
              [] OTHER -> [yields |-> FALSE, parsed |-> <<>>]

\* text.match(/\[[\s\S]*\]/): from the first "[" to the last "]" after it.
arrayMatch(text) ==
    LET opens == {i \in 1..Len(text) : text[i] = "["}
        first == Min2(Len(text) + 1, CHOOSE i \in opens \cup {Len(text) + 1} :
                         \A j \in opens : i <= j)
        closes == {i \in 1..Len(text) : text[i] = "]" /\ i > first}
    IN IF opens = {} \/ closes = {} THEN <<>>
       ELSE <<SubSeq(text, first, Max(closes))>>

\* Tier 2: the array substring.
tier2(text) ==
    LET found == arrayMatch(text)
        parsed == IF found = <<>> THEN <<>> ELSE jsonParse(found[1])
    IN IF parsed # <<>> /\ parsed[1].kind = "array"
       THEN [yields |-> TRUE, parsed |-> parsed[1].items]
       ELSE [yields |-> FALSE, parsed |-> <<>>]

\* Where the match of /\{[^{}]*(?:\{[^{}]*\}[^{}]*)*\}/ that starts at chunk
\* i ends, or 0: a flat object is its own match; an opening brace matches up
\* to its closing brace when only flat objects and brace-free chunks lie
\* between.
RECURSIVE closingOf(_, _)
closingOf(text, j) ==
    IF j > Len(text) THEN 0
    ELSE IF text[j] = "}" THEN j
    ELSE IF text[j] = "{findings:" THEN 0
    ELSE closingOf(text, j + 1)

objectMatchEnd(text, i) ==
    CASE text[i] \in {"{a1}", "{bad}"} -> i
      [] text[i] = "{findings:" -> closingOf(text, i + 1)
      [] OTHER -> 0

\* The exec loop of tier 3: the matches from chunk i on, each parsed, the
\* ones that do not parse dropped.
RECURSIVE objectsFrom(_, _)
objectsFrom(text, i) ==
    IF i > Len(text) THEN <<>>
    ELSE LET end == objectMatchEnd(text, i)
         IN IF end = 0 THEN objectsFrom(text, i + 1)
            ELSE jsonParse(SubSeq(text, i, end)) \o objectsFrom(text, end + 1)

tier3(text) == [yields |-> TRUE, parsed |-> objectsFrom(text, 1)]

\* Mutant of parseClaudeResponse: the individual objects are tried before
\* the array substring.
parseClaudeResponse_objectsFirst(text) ==
    IF tier1(text).yields THEN [parsed |-> tier1(text).parsed, tiers |-> <<1>>]
    ELSE IF objectsFrom(text, 1) # <<>>
    THEN [parsed |-> tier3(text).parsed, tiers |-> <<1, 3>>]
    ELSE IF tier2(text).yields
    THEN [parsed |-> tier2(text).parsed, tiers |-> <<1, 3, 2>>]
    ELSE [parsed |-> <<>>, tiers |-> <<1, 3, 2>>]

\* parseClaudeResponse(text): the array it returns, and the tiers it went
\* through to get it.
parseClaudeResponse(text) ==
    IF tier1(text).yields THEN [parsed |-> tier1(text).parsed, tiers |-> <<1>>]
    ELSE IF tier2(text).yields
    THEN [parsed |-> tier2(text).parsed, tiers |-> <<1, 2>>]
    ELSE [parsed |-> tier3(text).parsed, tiers |-> <<1, 2, 3>>]

----------------------------------------------------------------------------
(* SpecParse: parseClaudeResponse on a reply text                          *)

\* translateBatch calls parseClaudeResponse only with a non-empty content.
ParseInit ==
    /\ p_pc = "called"
    /\ p_text \in SeqsUpTo(Chunks, MaxChunks) \ {<<>>}
    /\ p_out = <<>>
    /\ OrchParked /\ BatchParked /\ PanelParked
    /\ CapParked /\ RateParked /\ StatusParked /\ IdsParked /\ OwnParked /\ AsyncParked

ParseClaudeResponse ==
    /\ p_pc = "called"
    /\ p_out' = <<parseClaudeResponse(p_text)>>
    /\ p_pc' = "done"
    /\ UNCHANGED p_text
    /\ UNCHANGED <<orchVars, batchVars, panelVars, capVars, rateVars, statusVars,
                   idVars, ownVars, asyncVars>>

ParseNext == ParseClaudeResponse

SpecParse == ParseInit /\ [][ParseNext]_vars

----------------------------------------------------------------------------
(* Claims about orchestrateScan                                            *)

Settled == pc \in {"finally", "returned"}
HasReport == result.report # <<>>
report == result.report[1]
IdsOfFindings(fs) == [k \in 1..Len(fs) |-> fs[k].id]
Caller == args.clientIp

\* C1: an adapter that throws is caught by runToolSafely and becomes
\* {success: false, findings: [], error}; the scan still returns a report and
\* not INTERNAL_ERROR; the crashed adapter's panel is partial with reason
\* tool_error and no other panel is; the other adapters have run (npm audit
\* only where it is started) and the findings each returned are the findings
\* of its own panel, in the same order.
C1_FailureIsolation ==
    (pc = "returned" /\ crashed # {}) =>
        /\ HasReport
        /\ result.code # "INTERNAL_ERROR"
        /\ Len(toolResults) = 4
        /\ {Tools[1], Tools[3], Tools[4]} \subseteq calls
        /\ \A i \in crashed :
              /\ toolResults[i].success = FALSE
              /\ toolResults[i].findings = <<>>
              /\ toolResults[i].error # Undefined
              /\ report.panels[i].status = "partial"
              /\ report.panels[i].statusReason = "tool_error"
        /\ \A j \in (1..4) \ crashed :
              /\ report.panels[j].statusReason # "tool_error"
              /\ report.panels[j].panel = Panels[j]
              /\ IdsOfFindings(report.panels[j].findings)
                    = IdsOfFindings(toolResults[j].findings)

C1_Witness ==
    /\ pc = "returned"
    /\ crashed = {1}
    /\ HasReport
    /\ report.panels[1].statusReason = "tool_error"
    /\ IdsOfFindings(report.panels[3].findings) = <<"s1", "s2">>
    /\ report.panels[3].status = "success"

\* Exactly one adapter's result carries an error.
OneAdapterError ==
    /\ Len(toolResults) = 4
    /\ Cardinality({i \in 1..4 : toolResults[i].error # Undefined}) = 1

\* No panel's translation failed, so no panel is partial for a
\* translation_error.
TranslationsFine == \A i \in 1..4 : translations[i].status # "failed"

\* C2: when exactly one adapter returns an error and the other three succeed
\* (and no panel's translation failed), the report's status is partial and
\* the three other panels have status success.
C2_OneErrorIsPartial ==
    (pc = "returned" /\ HasReport /\ OneAdapterError /\ TranslationsFine) =>
        /\ report.status = "partial"
        /\ \A j \in 1..4 :
              toolResults[j].error = Undefined => report.panels[j].status = "success"

\* C3: once an invocation has returned, the temp directory made for it is
\* gone, whatever the result.
C3_TempDirRemoved ==
    (pc = "returned" /\ createdDir # 0) => createdDir \notin fsDirs

\* C4: an invocation changes the rate-limit table only by returning a report:
\* until then, and after any error result, the table is as it was at the
\* call; with a report, the caller's record counts one more than before (or 1
\* where the day's count starts), and every other record is as it was.
C4_TableChangedOnlyByReport ==
    pc # "idle" =>
        IF Settled /\ HasReport
        THEN /\ \A c \in Clients \ {Caller} : rateLimitMap[c] = mapAtCall[c]
             /\ rateLimitMap[Caller].resetDate \in 1..today
             /\ rateLimitMap[Caller].count =
                   IF mapAtCall[Caller].resetDate = rateLimitMap[Caller].resetDate
                   THEN mapAtCall[Caller].count + 1
                   ELSE 1
        ELSE rateLimitMap = mapAtCall

C4_Witness ==
    /\ pc = "returned"
    /\ HasReport
    /\ mapAtCall[Caller] = [count |-> MAX_SCANS_PER_DAY, resetDate |-> 0]
    /\ rateLimitMap[Caller].count = 1
    /\ clock = 2

\* C5: the step that finds checkRateLimit(clientIp).canScan false ends the
\* invocation with RATE_LIMIT_EXCEEDED and the snapshot, remaining = 0, and an
\* invocation that ended so has called neither the fetcher, nor an adapter,
\* nor the translator.
C5_RateLimitExceeded ==
    /\ [][(/\ pc = "checkLimit"
           /\ pc' # "checkLimit"
           /\ ~checkRateLimit(rateLimitMap, Caller, today).canScan)
          => (/\ pc' = "finally"
              /\ result'.status = "error"
              /\ result'.code = "RATE_LIMIT_EXCEEDED"
              /\ result'.report = <<>>
              /\ result'.rateLimit = <<checkRateLimit(rateLimitMap, Caller, today)>>
              /\ result'.rateLimit[1].remaining = 0)]_vars
    /\ []((Settled /\ result.code = "RATE_LIMIT_EXCEEDED")
          => (calls = {} /\ fetchResult = <<>> /\ toolResults = <<>>
              /\ translations = <<>> /\ fsDirs = {d \in fsDirs : d < clock}))

C5_Witness ==
    /\ pc = "returned"
    /\ result.code = "RATE_LIMIT_EXCEEDED"
    /\ result.rateLimit[1].remaining = 0
    /\ result.rateLimit[1].scansToday = MAX_SCANS_PER_DAY
    /\ calls = {}

\* The owner/repo form the spec asks of a repoUrl.
OwnerRepoForm(u) ==
    /\ u.prefix = "https://github.com/"
    /\ Len(u.path) = 2

InvalidUrlGiven == args.repoUrl.isString /\ ~OwnerRepoForm(args.repoUrl)

AcquisitionFailed ==
    /\ fetchResult # <<>>
    /\ ~fetchResult[1].success

\* C7: when fetchGitHubRepo fails, the invocation ends with status error, an
\* error code (REPO_NOT_FOUND, or INTERNAL_ERROR when the fetcher threw) and
\* no report, and no adapter and no translation is started.
C7_AcquisitionFailureAborts ==
    AcquisitionFailed =>
        /\ Settled
        /\ result.status = "error"
        /\ result.code = IF fetchResult[1].threw THEN "INTERNAL_ERROR" ELSE "REPO_NOT_FOUND"
        /\ result.report = <<>>
        /\ calls = {"fetchGitHubRepo"}
        /\ toolResults = <<>>
        /\ translations = <<>>

C7_Witness ==
    /\ pc = "returned"
    /\ AcquisitionFailed
    /\ fetchResult[1].error = "GitHub API request timed out"
    /\ result.code = "REPO_NOT_FOUND"

----------------------------------------------------------------------------
(* Claims about the translator                                             *)

t_out == t_result[1].findings

\* The findings translatePanel answers for: the capped list when batches
\* are run, the whole input on the two early returns.
t_answered ==
    IF Len(t_raw) > 0 /\ t_apiKey THEN t_cap.capped ELSE t_raw

CountId(findings, id) == Cardinality({i \in 1..Len(findings) : findings[i].id = id})
IdsOf(findings) == {findings[i].id : i \in 1..Len(findings)}

\* A fallback carries the fixed reflection text; every reply entry of the
\* universes carries another one.
IsFallback(tf) == tf.reflection = fallbackReflection

\* C8 as stated: translatePanel's output list always has the length of its
\* input list, one TranslatedFinding per input finding, whatever the service
\* returns, also for inputs longer than MAX_FINDINGS_PER_PANEL.
C8_OutputLengthEqualsInput ==
    t_pc = "done" => Len(t_out) = Len(t_raw)

\* C8 amended: translatePanel returns exactly one TranslatedFinding per finding
\* it keeps: with a credential the output has min(len(input),
\* MAX_FINDINGS_PER_PANEL) entries, without one it has len(input) entries; no
\* id occurs more often in the output than in the input, and exactly as often
\* when nothing was cut, whatever the service returns.
C8_OnePerKeptFinding ==
    t_pc = "done" =>
        /\ Len(t_out) = IF t_apiKey THEN Min2(Len(t_raw), MAX_FINDINGS_PER_PANEL)
                        ELSE Len(t_raw)
        /\ \A id \in IdsOf(t_out) \cup IdsOf(t_raw) :
              /\ CountId(t_out, id) <= CountId(t_raw, id)
              /\ Len(t_out) = Len(t_raw) => CountId(t_out, id) = CountId(t_raw, id)

\* C8 witness: an input longer than the cap was cut to the cap, went through
\* two batches, and at least one of its findings was translated.
C8_Witness ==
    /\ t_pc = "done" /\ t_apiKey
    /\ Len(t_raw) > MAX_FINDINGS_PER_PANEL
    /\ Len(t_batches) = 2
    /\ t_result[1].translatedCount > 0
    /\ Len(t_out) = MAX_FINDINGS_PER_PANEL

\* The object the reconciliation must use for a finding: the last entry of
\* the reply that is an object with an id equal, ignoring letter case, to
\* the finding's id.
EntriesFor(parsed, rawId) ==
    {j \in 1..Len(parsed) :
        /\ parsed[j].isObject /\ parsed[j].id # Undefined
        /\ ToLowerCase(parsed[j].id) = ToLowerCase(rawId)}

UsableEntry(e) ==
    /\ IsString(e.plainLanguage) /\ Trim(e.plainLanguage) # ""
    /\ IsString(e.context) /\ Trim(e.context) # ""
    /\ IsString(e.reflection) /\ Trim(e.reflection) # ""

\* C9: reconciliation is by identity: a finding is given a translation only
\* from an entry whose id equals its own id (ignoring letter case), namely the
\* last such entry of the reply, wherever that entry stands; a finding with no
\* such entry is a fallback.
C9_ReconciledById ==
    (b_pc = "done" /\ b_response.kind = "ok") =>
        \A i \in 1..Len(b_findings) :
            LET raw == b_findings[i]
                out == b_result.findings[i]
                J == EntriesFor(b_response.parsed, raw.id)
            IN IF J = {} \/ ~UsableEntry(b_response.parsed[Max(J)])
               THEN IsFallback(out) /\ out.plainLanguage = raw.message
               ELSE /\ ~IsFallback(out)
                    /\ out.plainLanguage =
                          TrimString(Trim(b_response.parsed[Max(J)].plainLanguage))

\* C9 witness: two findings with different ids, answered by their two entries
\* in reversed order, both matched.
C9_Witness ==
    /\ b_pc = "done" /\ b_response.kind = "ok"
    /\ Len(b_findings) = 2 /\ Len(b_response.parsed) = 2
    /\ b_findings[1].id # b_findings[2].id
    /\ EntriesFor(b_response.parsed, b_findings[1].id) = {2}
    /\ EntriesFor(b_response.parsed, b_findings[2].id) = {1}
    /\ b_result.matchedCount = 2

SeverityImportance ==
    [sev \in {"critical", "high", "medium", "low"} |->
        CASE sev = "critical" -> "important"
          [] sev = "high" -> "explore"
          [] sev = "medium" -> "note"
          [] OTHER -> "fyi"]

\* C11: every TranslatedFinding of a batch, matched or fallback, has the
\* importance the fixed mapping gives for the severity of the finding it
\* stands for, whatever importance the reply entry carried.
C11_ImportanceFromSeverity ==
    b_pc = "done" =>
        /\ Len(b_result.findings) = Len(b_findings)
        /\ \A i \in 1..Len(b_findings) :
              b_result.findings[i].importance
                  = SeverityImportance[b_findings[i].severity]

\* C11 witness: the finding a1 (low) was matched with the entry that says
\* "important" and came out as fyi, next to a fallback.
C11_Witness ==
    /\ b_pc = "done" /\ b_response.kind = "ok"
    /\ Len(b_findings) = 2
    /\ b_findings[1].id = "a1"
    /\ b_response.parsed = <<ItemA1>>
    /\ ~IsFallback(b_result.findings[1])
    /\ b_result.findings[1].importance = "fyi"
    /\ IsFallback(b_result.findings[2])
    /\ b_findings[2].severity = "high"
    /\ b_result.findings[2].importance = "explore"

----------------------------------------------------------------------------
(* Claims about capFindingsBySeverity                                      *)

\* critical > high > medium > low
SeverityRank ==
    [sev \in Severities |->
        CASE sev = "critical" -> 4 [] sev = "high" -> 3
          [] sev = "medium" -> 2 [] OTHER -> 1]

c_capped == c_result[1].capped
KeptIds == {c_capped[i].id : i \in 1..Len(c_capped)}
Kept == {i \in 1..Len(c_given) : c_given[i].id \in KeptIds}
Discarded == {i \in 1..Len(c_given) : c_given[i].id \notin KeptIds}

\* Position in the input of the finding with this id.
PosOf(id) == CHOOSE i \in 1..Len(c_given) : c_given[i].id = id

\* C12: when the input has more than max findings, no finding is discarded
\* while a finding of strictly lower severity is kept.
C12_NoLowerKeptOverHigher ==
    (c_pc = "done" /\ Len(c_given) > c_max) =>
        \A d \in Discarded, k \in Kept :
            SeverityRank[c_given[k].severity] >= SeverityRank[c_given[d].severity]

\* C12 witness: four findings, the critical one last, cut to two: the
\* critical one is kept and a low one before it is discarded.
C12_Witness ==
    /\ c_pc = "done"
    /\ Len(c_given) = 4 /\ c_max = 2
    /\ c_given[1].severity = "low"
    /\ c_given[4].severity = "critical"
    /\ 4 \in Kept /\ 1 \in Discarded

\* C13: a list of at most max findings comes back as it is, truncated false;
\* a longer one comes back as exactly max of its findings, in severity order,
\* findings of one severity in their input order and the earlier ones of a
\* severity kept before the later ones, truncated true; originalCount is the
\* input length; the list passed in is as it was.
C13_CapContract ==
    c_pc = "done" =>
        /\ c_result[1].originalCount = Len(c_given)
        /\ c_findings = c_given
        /\ IF Len(c_given) <= c_max
           THEN c_capped = c_given /\ c_result[1].truncated = FALSE
           ELSE /\ c_result[1].truncated = TRUE
                /\ Len(c_capped) = c_max
                /\ Cardinality(KeptIds) = c_max
                /\ \A i \in 1..c_max : c_capped[i] = c_given[PosOf(c_capped[i].id)]
                /\ \A i, j \in 1..c_max :
                      i < j =>
                        \/ SeverityRank[c_capped[i].severity]
                              > SeverityRank[c_capped[j].severity]
                        \/ /\ c_capped[i].severity = c_capped[j].severity
                           /\ PosOf(c_capped[i].id) < PosOf(c_capped[j].id)
                /\ \A d \in Discarded, k \in Kept :
                      \/ SeverityRank[c_given[k].severity]
                            > SeverityRank[c_given[d].severity]
                      \/ /\ c_given[k].severity = c_given[d].severity
                         /\ k < d

\* C13 witness: low, high, low, high cut to three: high, high, then the first
\* low; the input still starts with the low one.
C13_Witness ==
    /\ c_pc = "done" /\ c_max = 3
    /\ [i \in 1..Len(c_given) |-> c_given[i].severity] = <<"low", "high", "low", "high">>
    /\ [i \in 1..Len(c_capped) |-> c_capped[i].id] = <<"f2", "f4", "f1">>
    /\ c_findings[1].id = "f1"

----------------------------------------------------------------------------
(* Claims about the rate limiter                                           *)

Checked == lastCheck # <<>>
check == lastCheck[1]

\* C14: daily cycle.  A check made after the day's limit of increments for
\* the client says canScan false; a check made on a day without an increment
\* for the client yet, so also after the date has changed, says canScan true
\* with scansToday 0; the increments of a day count from 1.
C14_DailyCycle ==
    /\ Checked =>
          /\ check.incs >= MAX_SCANS_PER_DAY => check.result.canScan = FALSE
          /\ check.incs = 0 => (check.result.canScan = TRUE
                                /\ check.result.scansToday = 0)
    /\ \A c \in Clients :
          incsToday[c] >= 1 =>
              rateLimitMap[c] = [count |-> incsToday[c], resetDate |-> today]

\* C14 witness: the client used up day 1, was refused, and on day 2 is
\* allowed again with scansToday 0 and then counted as 1.
C14_Witness ==
    /\ Checked
    /\ check.day = 2
    /\ check.entry = [count |-> MAX_SCANS_PER_DAY, resetDate |-> 1]
    /\ check.result.canScan = TRUE /\ check.result.scansToday = 0
    /\ rateLimitMap[check.clientIp] = [count |-> 1, resetDate |-> 2]

\* The count checkRateLimit goes by: the stored one if the record is of
\* today, 0 otherwise.
CountedToday(entry, day) == IF entry.resetDate = day THEN entry.count ELSE 0

\* C15: remaining = max(0, limit - count), canScan exactly when
\* remaining > 0, remaining never negative.
C15_Remaining ==
    Checked =>
        LET count == CountedToday(check.entry, check.day)
        IN /\ check.result.remaining =
                 (IF MAX_SCANS_PER_DAY - count > 0 THEN MAX_SCANS_PER_DAY - count ELSE 0)
           /\ check.result.remaining >= 0
           /\ check.result.canScan = (check.result.remaining > 0)

\* C15 witness: a record counting more than the limit, checked on its day.
C15_Witness ==
    /\ Checked
    /\ check.entry.resetDate = check.day
    /\ check.entry.count > MAX_SCANS_PER_DAY
    /\ check.result.remaining = 0
    /\ check.result.canScan = FALSE

Stale(c) == rateLimitMap[c] # NoEntry /\ rateLimitMap[c].resetDate # today

\* C16: lazy reset.  A check of a record of another day reports scansToday 0;
\* a step that is no increment (a check, a change of date) leaves every
\* record as it is; the increment for a client with a record of another day
\* replaces it with {count: 1, resetDate: today}.
C16_LazyReset ==
    /\ [](Checked => (check.entry.resetDate # check.day
                        => check.result.scansToday = 0))
    /\ [][\A c \in Clients :
            IF incsToday'[c] = incsToday[c] + 1
            THEN Stale(c) => rateLimitMap'[c] = [count |-> 1, resetDate |-> today]
            ELSE rateLimitMap'[c] = rateLimitMap[c]]_vars

\* C16 witness: the record of day 1 is still in the table on day 2, after a
\* check on day 2 that reported scansToday 0.
C16_Witness ==
    /\ Checked
    /\ today = 2 /\ check.day = 2
    /\ check.entry = [count |-> 1, resetDate |-> 1]
    /\ check.result.scansToday = 0
    /\ rateLimitMap[check.clientIp] = [count |-> 1, resetDate |-> 1]

----------------------------------------------------------------------------
(* Claims about the statuses                                               *)

AllAre(st) == \A i \in 1..4 : s_statuses[i].status = st

\* C17: calculateStatus gives error exactly when every panel is skipped,
\* success exactly when every panel is success, and partial when not all are
\* skipped and one at least is partial or skipped.
C17_OverallStatus ==
    s_overall # <<>> =>
        /\ (s_overall[1] = "error") = AllAre("skipped")
        /\ (s_overall[1] = "success") = AllAre("success")
        /\ (~AllAre("skipped")
            /\ \E i \in 1..4 : s_statuses[i].status \in {"partial", "skipped"})
              => s_overall[1] = "partial"

\* C17 witness: one panel skipped and three success give partial.
C17_Witness ==
    /\ s_overall = <<"partial">>
    /\ s_statuses[1].status = "skipped"
    /\ \A i \in 2..4 : s_statuses[i].status = "success"

\* C18: a panel of an analyzer result with success false is partial whatever
\* the translation; a panel of a successful analyzer whose translation
\* failed is partial with reason translation_error; a panel is success only
\* if the analyzer succeeded and the translation did not fail.
C18_PanelStatusMerge ==
    s_panel # <<>> =>
        /\ ~s_tool.success => s_panel[1].status = "partial"
        /\ (s_tool.success /\ s_translation.status = "failed")
              => (s_panel[1].status = "partial"
                  /\ s_panel[1].statusReason = "translation_error")
        /\ s_panel[1].status = "success"
              => (s_tool.success /\ s_translation.status # "failed")

\* C18 witness: the analyzer succeeded, the translation failed.
C18_Witness ==
    /\ s_panel # <<>>
    /\ s_tool.success /\ s_translation.status = "failed"
    /\ s_panel[1].status = "partial"
    /\ s_panel[1].statusReason = "translation_error"

----------------------------------------------------------------------------
(* Claims about translatePanel's early returns                             *)

\* No batch was sent: translatePanel went from its call to its return.
NoBatchStarted == t_pc \in {"start", "done"} /\ t_batchResults = <<>>

\* C19: without a credential and with findings, translatePanel sends no
\* batch and returns status failed with one fallback per input finding, in
\* input order: the finding's id, its message as plainLanguage, the
\* importance of its severity, its file, line and column, and the note that
\* translation is unavailable.
C19_MissingCredentialFallback ==
    (~t_apiKey /\ Len(t_raw) > 0 /\ t_pc # "off") =>
        /\ NoBatchStarted
        /\ t_pc = "done" =>
              /\ t_result[1].status = "failed"
              /\ t_result[1].translatedCount = 0
              /\ Len(t_out) = Len(t_raw)
              /\ \A i \in 1..Len(t_raw) :
                    /\ t_out[i].id = t_raw[i].id
                    /\ t_out[i].plainLanguage = t_raw[i].message
                    /\ t_out[i].importance = SeverityImportance[t_raw[i].severity]
                    /\ t_out[i].file = t_raw[i].file
                    /\ t_out[i].line = t_raw[i].line
                    /\ t_out[i].column = t_raw[i].column
                    /\ t_out[i].staticAnalysisNote =
                          "Translation unavailable (MISSING_API_KEY). Showing original finding."

\* C19 witness: four findings, more than the cap, all returned as fallbacks.
C19_Witness ==
    /\ t_pc = "done" /\ ~t_apiKey
    /\ Len(t_raw) = MaxLen
    /\ Len(t_out) = MaxLen
    /\ t_result[1].status = "failed"
    /\ \A i \in 1..Len(t_out) : IsFallback(t_out[i])

\* C20: on an empty list translatePanel sends no batch and returns status
\* success, no findings and counts of zero, with or without a credential.
C20_EmptyInput ==
    (Len(t_raw) = 0 /\ t_pc # "off") =>
        /\ NoBatchStarted
        /\ t_pc = "done" =>
              /\ t_result[1].status = "success"
              /\ t_result[1].findings = <<>>
              /\ t_result[1].originalCount = 0
              /\ t_result[1].translatedCount = 0

\* C20 witness: the empty list, without a credential.
C20_Witness ==
    /\ t_pc = "done"
    /\ t_raw = <<>> /\ ~t_apiKey
    /\ t_result[1].status = "success"
    /\ t_result[1].findings = <<>>

----------------------------------------------------------------------------
(* Claims about translatePanel's aggregate                                 *)

\* Batches were run: there were findings and a credential.
BatchesRun == t_pc = "done" /\ Len(t_raw) > 0 /\ t_apiKey

\* The findings of the output that were matched and validated, and those
\* that are fallbacks.
MatchedIn(out) == {i \in 1..Len(out) : ~IsFallback(out[i])}
FallbackIn(out) == {i \in 1..Len(out) : IsFallback(out[i])}

\* C21: when batches are run, translatePanel's status is success exactly when
\* every capped finding was matched and validated, partial when at least one
\* but not all were, failed when none was; translatedCount is the number of
\* matched findings, and matched plus fallback findings is the capped count.
C21_AggregateStatus ==
    BatchesRun =>
        LET matched == Cardinality(MatchedIn(t_out))
            fallbacks == Cardinality(FallbackIn(t_out))
            cappedCount == Min2(Len(t_raw), MAX_FINDINGS_PER_PANEL)
        IN /\ t_result[1].status = "success" <=> matched = cappedCount
           /\ t_result[1].status = "partial" <=> (0 < matched /\ matched < cappedCount)
           /\ t_result[1].status = "failed" <=> matched = 0
           /\ t_result[1].translatedCount = matched
           /\ matched + fallbacks = cappedCount

\* C21 witness: an input longer than the cap, every kept finding matched,
\* status success.
C21_Witness ==
    /\ BatchesRun
    /\ Len(t_raw) > MAX_FINDINGS_PER_PANEL
    /\ Cardinality(MatchedIn(t_out)) = MAX_FINDINGS_PER_PANEL
    /\ t_result[1].status = "success"

\* C21 second case: some but not all kept findings matched, status partial.
C21_PartialReached ==
    /\ BatchesRun
    /\ Cardinality(MatchedIn(t_out)) > 0
    /\ Cardinality(FallbackIn(t_out)) > 0
    /\ t_result[1].status = "partial"

\* What a TranslatedFinding says of its origin, and the same of a finding.
OriginOf(f) == <<f.id, f.file, f.line, f.column>>

\* C22: the batches of one panel settle in any order, and the merged output
\* of translatePanel is in capped-input order all the same: it is batch 1's
\* output, then batch 2's, and so on, and its i-th entry is the translation
\* or the fallback of the i-th capped finding (same id, file, line, column).
C22_MergedInInputOrder ==
    BatchesRun =>
        /\ t_out = FlatMap([b \in 1..Len(t_batches) |-> t_batchResults[b].findings])
        /\ [i \in 1..Len(t_out) |-> OriginOf(t_out[i])]
              = [i \in 1..Len(t_cap.capped) |-> OriginOf(t_cap.capped[i])]

\* C22 witness: two batches, the second settled before the first, and the
\* first finding of batch 1 differs from the finding of batch 2.
C22_Witness ==
    /\ BatchesRun
    /\ t_arrival = <<2, 1>>
    /\ OriginOf(t_batches[1][1]) # OriginOf(t_batches[2][1])
    /\ OriginOf(t_out[1]) = OriginOf(t_batches[1][1])

----------------------------------------------------------------------------
(* Claims about batch isolation                                            *)

\* The part of a merged list that belongs to batch k.
Segment(findings, k) ==
    SubSeq(findings, (k - 1) * BATCH_SIZE + 1, Min2(k * BATCH_SIZE, Len(findings)))

\* translatePanel's findings had batch b's request come to r instead.
OutputHad(b, r) ==
    translatePanel(TranslatePanelName, t_raw, t_apiKey,
                   [t_responses EXCEPT ![b] = r]).findings

----------------------------------------------------------------------------
(* Claims about the shape of orchestrateScan's result                      *)

\* The result has an error object (with its code), a report.
HasError == result.code # Undefined
ShortCircuitCodes == {"INVALID_GITHUB_URL", "RATE_LIMIT_EXCEEDED", "REPO_NOT_FOUND"}

\* C24: every result of orchestrateScan has exactly one of report and error:
\* an error with a code and no report exactly when its status is error, a
\* report and no error exactly when its status is success or partial; the
\* short-circuit outcomes (invalid URL, quota exhausted, acquisition failure)
\* carry no report.
C24_ReportXorError ==
    pc = "returned" =>
        /\ result.status \in {"error", "success", "partial"}
        /\ HasError # HasReport
        /\ (HasError /\ ~HasReport) <=> result.status = "error"
        /\ (HasReport /\ ~HasError) <=> result.status \in {"success", "partial"}
        /\ HasError => result.code \in ShortCircuitCodes \cup {"INTERNAL_ERROR"}
        /\ (InvalidUrlGiven \/ AcquisitionFailed \/ result.code \in ShortCircuitCodes)
              => ~HasReport /\ result.status = "error"

\* C24 witness: a scan returned a report with status partial and no error.
C24_Witness ==
    /\ pc = "returned"
    /\ HasReport /\ ~HasError
    /\ result.status = "partial"
    /\ report.status = "partial"

\* C24 second case: a scan stopped by the daily limit returned an error and
\* no report.
C24_ShortCircuitReached ==
    /\ pc = "returned"
    /\ result.code = "RATE_LIMIT_EXCEEDED"
    /\ ~HasReport

----------------------------------------------------------------------------
(* Claims about finding ids                                                *)

\* What identifies a detection.
DetectionOf(f) == <<f.panel, f.tool, f.rule, f.detail, f.file, f.line>>

----------------------------------------------------------------------------
(* Claims about the ownership of the temp directory                        *)

\* C26: the temporary copy is owned by one invocation: under every
\* interleaving of concurrent orchestrateScan invocations no two of them hold
\* the same temp directory, and no cleanup has removed a directory that
\* another invocation was still reading.
C26_ExclusiveTempDir ==
    /\ \A inv \in DOMAIN k_pc :
          k_pc[inv] # "idle" => HoldersOf(k_dir[inv], inv) = {}
    /\ k_deletedInUse = {}

----------------------------------------------------------------------------
(* Claims about failures inside an adapter                                 *)

\* The adapters that failed inside their own boundary: they returned with an
\* error (their tool timed out, could not be run, or its output could not be
\* parsed) and did not throw.
FailedInside ==
    {i \in 1..Len(toolResults) : i \notin crashed /\ toolResults[i].error # Undefined}

\* C27: an adapter's failure inside its own boundary becomes an empty
\* finding set and an error annotation on its panel only: that panel is
\* reported partial with zero findings and the error message, and the panels
\* of the adapters that did not fail carry no error.
C27_AdapterFailureAnnotated ==
    (pc = "returned" /\ HasReport) =>
        /\ \A i \in FailedInside :
              /\ toolResults[i].findings = <<>>
              /\ report.panels[i].status = "partial"
              /\ report.panels[i].findingCount = 0
              /\ report.panels[i].findings = <<>>
              /\ report.panels[i].errorMessage = toolResults[i].error
        /\ \A j \in (1..4) \ (FailedInside \cup crashed) :
              report.panels[j].errorMessage = Undefined

----------------------------------------------------------------------------
(* Claims about a failed batch and the panel in the report                 *)

\* The panel is in the report; batches had been sent for it.
Assembled == t_pc = "assembled" /\ t_record /\ Len(t_raw) > 0 /\ t_apiKey
ABatchFailed == \E b \in DOMAIN t_responses : t_responses[b].kind \in FailureKinds

\* C28 as stated: when a batch of a panel fails, so that at least one of the
\* panel's findings is a fallback, the panel's status in the report is
\* downgraded from success to partial.
C28_FallbackDowngradesPanel ==
    (Assembled /\ ABatchFailed /\ FallbackIn(t_out) # {}) =>
        t_panel[1].status = "partial"

\* C28 amended: when a batch of a panel fails, translatePanel still returns,
\* with status partial or failed and every finding of the panel in its output;
\* the panel in the report is partial (reason translation_error) exactly when
\* no finding of the panel was matched, and success otherwise; it carries
\* translatePanel's findings either way.
C28_DowngradedWhenNoneMatched ==
    Assembled =>
        /\ ABatchFailed =>
              /\ t_result[1].status \in {"partial", "failed"}
              /\ FallbackIn(t_out) # {}
              /\ Len(t_out) = Len(t_cap.capped)
        /\ t_panel[1].status =
              IF MatchedIn(t_out) = {} THEN "partial" ELSE "success"
        /\ t_panel[1].statusReason =
              IF MatchedIn(t_out) = {} THEN "translation_error" ELSE Undefined
        /\ t_panel[1].findings = t_out

\* C28 witness: the first batch timed out, the finding of the second was
\* matched: translatePanel says partial and the panel in the report success.
C28_Witness ==
    /\ Assembled
    /\ t_responses[1].kind = "timeout"
    /\ Len(t_batches) = 2
    /\ MatchedIn(t_out) = {BATCH_SIZE + 1}
    /\ t_result[1].status = "partial"
    /\ t_panel[1].status = "success"

\* C28 second case: every batch failed and the panel in the report is
\* partial.
C28_AllFailedReached ==
    /\ Assembled
    /\ Len(t_batches) = 2
    /\ \A b \in 1..2 : t_responses[b].kind \in FailureKinds
    /\ t_panel[1].status = "partial"

----------------------------------------------------------------------------
(* Claims about parseClaudeResponse                                        *)

\* The whole text is JSON for an array or an object.
WholeIsStructure ==
    /\ jsonParse(p_text) # <<>>
    /\ jsonParse(p_text)[1].kind \in {"array", "object", "wrapper"}

\* The stretch from the first "[" to the last "]" is JSON.
ArrayStretchParses ==
    /\ arrayMatch(p_text) # <<>>
    /\ jsonParse(arrayMatch(p_text)[1]) # <<>>

\* C29: parseClaudeResponse tries its tiers strictly in order and stops at
\* the first that yields a parsed structure: tier 1 alone when the whole text
\* is a JSON array or object; tiers 1 and 2 when it is not and the array
\* substring parses; all three otherwise; and what it returns is what the
\* last tier it tried yields.
C29_TiersInOrder ==
    p_pc = "done" =>
        /\ p_out[1].tiers =
              IF WholeIsStructure THEN <<1>>
              ELSE IF ArrayStretchParses THEN <<1, 2>>
              ELSE <<1, 2, 3>>
        /\ p_out[1].parsed =
              IF WholeIsStructure THEN tier1(p_text).parsed
              ELSE IF ArrayStretchParses THEN jsonParse(arrayMatch(p_text)[1])[1].items
              ELSE objectsFrom(p_text, 1)

\* C29 witness: words around an array: tier 1 fails, tier 2 yields the array,
\* and tier 3, which would have found the object as well, is not tried.
C29_Witness ==
    /\ p_pc = "done"
    /\ p_text = <<"prose", "[", "{a1}", "]", "prose">>
    /\ p_out[1].tiers = <<1, 2>>
    /\ p_out[1].parsed = <<jsonValue("object", "a1", <<>>)>>

\* C29 second case: the array substring does not parse and the objects are
\* recovered one by one, the invalid one dropped.
C29_ThirdTierReached ==
    /\ p_pc = "done"
    /\ p_text = <<"[", "{a1}", "{bad}", "{a1}", "]">>
    /\ p_out[1].tiers = <<1, 2, 3>>
    /\ Len(p_out[1].parsed) = 2

----------------------------------------------------------------------------
(* Claims about what counts as a match                                     *)

\* A string with something other than white space in it.
NonEmptyText(v) == v \notin {Undefined, Null, "", "   "}

\* The entry the reply holds under the finding's id has all three texts.
CompleteEntryFor(raw) ==
    LET J == EntriesFor(b_response.parsed, raw.id)
    IN /\ J # {}
       /\ NonEmptyText(b_response.parsed[Max(J)].plainLanguage)
       /\ NonEmptyText(b_response.parsed[Max(J)].context)
       /\ NonEmptyText(b_response.parsed[Max(J)].reflection)

\* C30: in translateBatch a finding is matched only if the entry found under
\* its id has non-empty (after trimming) strings for plainLanguage, context
\* and reflection; with no entry, or an entry lacking one of the three, the
\* finding is a fallback made of its own id, message, severity-derived
\* importance, file, line and column; matchedCount counts the former.
C30_MatchedOnlyIfComplete ==
    (b_pc = "done" /\ b_response.kind = "ok") =>
        /\ \A i \in 1..Len(b_findings) :
              LET raw == b_findings[i]
                  out == b_result.findings[i]
              IN IF CompleteEntryFor(raw)
                 THEN /\ ~IsFallback(out)
                      /\ NonEmptyText(out.plainLanguage)
                      /\ NonEmptyText(out.context)
                      /\ NonEmptyText(out.reflection)
                 ELSE /\ out.id = raw.id
                      /\ out.plainLanguage = raw.message
                      /\ out.importance = SeverityImportance[raw.severity]
                      /\ out.reflection = fallbackReflection
                      /\ out.staticAnalysisNote =
                            "Partial translation - showing original finding."
                      /\ out.file = raw.file
                      /\ out.line = raw.line
                      /\ out.column = raw.column
        /\ b_result.matchedCount =
              Cardinality({i \in 1..Len(b_findings) : CompleteEntryFor(b_findings[i])})
        /\ b_result.matchedCount + b_result.fallbackCount = Len(b_findings)

\* C30 witness: two findings, each with an entry under its id; the entry of
\* the first is complete, the entry of the second has a blank plainLanguage;
\* the first is matched and the second is a fallback.
C30_Witness ==
    /\ b_pc = "done" /\ b_response.kind = "ok"
    /\ Len(b_findings) = 2
    /\ b_findings[1].id = "a1" /\ b_findings[2].id = "b2"
    /\ b_response.parsed = <<ItemA1, ItemB2Blank>>
    /\ ~IsFallback(b_result.findings[1])
    /\ IsFallback(b_result.findings[2])
    /\ b_result.matchedCount = 1

\* C30 second case: the entry under the id has no reflection to speak of and
\* the finding is a fallback.
C30_BlankReflectionReached ==
    /\ b_pc = "done" /\ b_response.kind = "ok"
    /\ b_findings = <<finding("a1", "low", "m1", "src/a.js", 1, 1)>>
    /\ b_response.parsed = <<[ItemA1 EXCEPT !.reflection = "   "]>>
    /\ IsFallback(b_result.findings[1])

----------------------------------------------------------------------------
(* Claims about the order of orchestrateScan's steps and its resources     *)

\* C31: within one invocation of orchestrateScan the translation of any
\* panel exists only when all four analyzer results are there (each adapter
\* has returned normally, was caught by runToolSafely, or was the skipped
\* npm audit); the report exists only when all four translations are there;
\* the client's stored count has changed only when the report exists; and
\* the temp directory has been released only when, for a scan that reached
\* its report, the count has changed.
C31_StepOrder ==
    /\ (translations # <<>> \/ "translateAllPanels" \in calls) =>
          /\ Len(toolResults) = 4
          /\ {Tools[1], Tools[3], Tools[4]} \subseteq calls
    /\ HasReport => (Len(translations) = 4 /\ "translateAllPanels" \in calls)
    /\ (pc # "idle" /\ rateLimitMap # mapAtCall) => HasReport
    /\ (tempDir # 0 /\ tempDir \notin fsDirs) =>
          /\ pc = "returned"
          /\ translations # <<>> => (HasReport /\ rateLimitMap # mapAtCall)

\* C31 witness: a scan in which an adapter failed has gone through all the
\* steps: four results, four translations, the report, the increment, the
\* cleanup.
C31_Witness ==
    /\ pc = "returned"
    /\ crashed # {}
    /\ Len(toolResults) = 4
    /\ Len(translations) = 4
    /\ HasReport
    /\ rateLimitMap # mapAtCall
    /\ tempDir # 0 /\ tempDir \notin fsDirs

\* The release of the directory made by this invocation, by its two places:
\* the fetcher's cleanupDir on its failure paths (the caller gets no tempDir)
\* and the cleanupDir of orchestrateScan's finally block (tempDir is set).
ReleasedByFetcher == createdDir # 0 /\ tempDir = 0 /\ createdDir \notin fsDirs
ReleasedByFinally == pc = "returned" /\ tempDir # 0 /\ tempDir \notin fsDirs

\* C32: an invocation of orchestrateScan that made a temp directory has
\* released it exactly once when it returns, whichever step failed: by the
\* fetcher or by the finally block, never by neither and never by both.
C32_ReleasedExactlyOnce ==
    (pc = "returned" /\ createdDir # 0) =>
        /\ createdDir \notin fsDirs
        /\ ReleasedByFetcher # ReleasedByFinally

----------------------------------------------------------------------------
(* SpecDeadline: the batches of one translatePanel call, their requests    *)
(* and their timers                                                        *)

\* What the body of a 200 reply can come to: no text, or a parsed array.
BodyResponses == {r \in IsolationResponses : r.kind \in {"empty", "ok"}}

\* translatePanel has capped the findings and called translateBatch for each
\* batch (Promise.all over batches.map): each call has made its controller,
\* armed setTimeout(abort, claudeTranslationTimeoutMs) and awaits fetch.
DeadlineInit ==
    /\ \E raw \in SeqsUpTo(PanelFindingUniverse, MAX_FINDINGS_PER_PANEL) \ {<<>>} :
          d_batches = sliceBatches(capFindingsBySeverity(raw, MAX_FINDINGS_PER_PANEL).capped)
    /\ d_pc = [b \in DOMAIN d_batches |-> "fetch"]
    /\ d_timer = [b \in DOMAIN d_batches |-> "armed"]
    /\ d_passed = [b \in DOMAIN d_batches |-> FALSE]
    /\ d_late = [b \in DOMAIN d_batches |-> FALSE]
    /\ d_result = [b \in DOMAIN d_batches |-> <<>>]
    /\ OrchParked /\ BatchParked /\ PanelParked
    /\ CapParked /\ RateParked /\ StatusParked /\ IdsParked /\ OwnParked
    /\ ParseParked /\ OverlapParked

DeadlineOthers ==
    UNCHANGED <<orchVars, batchVars, panelVars, capVars, rateVars, statusVars,
                idVars, ownVars, parseVars, overlapVars>>

\* `await fetch(...)` resolves when the status line and headers are in;
\* the next statement is clearTimeout(timeoutId).  Then the code awaits
\* response.text() (when !response.ok) or response.json().
HeadersArrive(b, ok) ==
    /\ b \in DOMAIN d_pc
    /\ d_pc[b] = "fetch"
    /\ d_timer' = [d_timer EXCEPT ![b] = "cleared"]
    /\ d_pc' = [d_pc EXCEPT ![b] = IF ok THEN "body" ELSE "errorText"]
    /\ UNCHANGED <<d_batches, d_passed, d_late, d_result>>
    /\ DeadlineOthers

\* fetch rejects for a reason other than the abort: the catch block clears
\* the timer and returns the UNEXPECTED_ERROR fallback.
FetchRejects(b) ==
    /\ b \in DOMAIN d_pc
    /\ d_pc[b] = "fetch"
    /\ d_timer' = [d_timer EXCEPT ![b] = "cleared"]
    /\ d_pc' = [d_pc EXCEPT ![b] = "settled"]
    /\ d_result' = [d_result EXCEPT ![b] =
            <<translateBatch(TranslatePanelName, d_batches[b],
                             [kind |-> "network", parsed |-> <<>>])>>]
    /\ UNCHANGED <<d_batches, d_passed, d_late>>
    /\ DeadlineOthers

\* claudeTranslationTimeoutMs have gone by since the batch started.  A timer
\* that is still armed fires: controller.abort() rejects the pending fetch
\* with AbortError and the catch block returns the CLAUDE_TIMEOUT fallback.
\* A cleared timer does nothing.
DeadlinePasses(b) ==
    /\ b \in DOMAIN d_pc
    /\ ~d_passed[b]
    /\ d_passed' = [d_passed EXCEPT ![b] = TRUE]
    /\ d_late' = [d_late EXCEPT ![b] = d_pc[b] # "settled"]
    /\ IF d_timer[b] = "armed"
       THEN /\ d_timer' = [d_timer EXCEPT ![b] = "fired"]
            /\ d_pc' = [d_pc EXCEPT ![b] = "settled"]
            /\ d_result' = [d_result EXCEPT ![b] =
                    <<translateBatch(TranslatePanelName, d_batches[b],
                                     [kind |-> "timeout", parsed |-> <<>>])>>]
       ELSE UNCHANGED <<d_timer, d_pc, d_result>>
    /\ UNCHANGED d_batches
    /\ DeadlineOthers

\* response.json() resolves: the rest of translateBatch runs to its return.
BodyArrives(b, response) ==
    /\ b \in DOMAIN d_pc
    /\ d_pc[b] = "body"
    /\ d_pc' = [d_pc EXCEPT ![b] = "settled"]
    /\ d_result' = [d_result EXCEPT ![b] =
            <<translateBatch(TranslatePanelName, d_batches[b], response)>>]
    /\ UNCHANGED <<d_batches, d_timer, d_passed, d_late>>
    /\ DeadlineOthers

\* response.json() rejects (the connection breaks, the body is not JSON):
\* the catch block returns the UNEXPECTED_ERROR fallback.
BodyFails(b) ==
    /\ b \in DOMAIN d_pc
    /\ d_pc[b] = "body"
    /\ d_pc' = [d_pc EXCEPT ![b] = "settled"]
    /\ d_result' = [d_result EXCEPT ![b] =
            <<translateBatch(TranslatePanelName, d_batches[b],
                             [kind |-> "network", parsed |-> <<>>])>>]
    /\ UNCHANGED <<d_batches, d_timer, d_passed, d_late>>
    /\ DeadlineOthers

\* response.text().catch(() => 'Unknown error') settles either way and the
\* CLAUDE_API_ERROR fallback is returned.
ErrorTextArrives(b) ==
    /\ b \in DOMAIN d_pc
    /\ d_pc[b] = "errorText"
    /\ d_pc' = [d_pc EXCEPT ![b] = "settled"]
    /\ d_result' = [d_result EXCEPT ![b] =
            <<translateBatch(TranslatePanelName, d_batches[b],
                             [kind |-> "http_error", parsed |-> <<>>])>>]
    /\ UNCHANGED <<d_batches, d_timer, d_passed, d_late>>
    /\ DeadlineOthers

DeadlineNext ==
    \/ \E b \in 1..MAX_FINDINGS_PER_PANEL, ok \in BOOLEAN : HeadersArrive(b, ok)
    \/ \E b \in 1..MAX_FINDINGS_PER_PANEL : FetchRejects(b)
    \/ \E b \in 1..MAX_FINDINGS_PER_PANEL : DeadlinePasses(b)
    \/ \E b \in 1..MAX_FINDINGS_PER_PANEL, response \in BodyResponses : BodyArrives(b, response)
    \/ \E b \in 1..MAX_FINDINGS_PER_PANEL : BodyFails(b)
    \/ \E b \in 1..MAX_FINDINGS_PER_PANEL : ErrorTextArrives(b)

\* Time goes by, so every deadline passes; the service owes nothing.
SpecDeadline ==
    /\ DeadlineInit
    /\ [][DeadlineNext]_vars
    /\ \A b \in 1..MAX_FINDINGS_PER_PANEL : WF_vars(DeadlinePasses(b))

\* C33: every batch eventually settles, and a batch whose response was not
\* complete (headers and body) when its deadline passed settles with the
\* CLAUDE_TIMEOUT fallback for all its findings.
C33_StalledBatchTimesOut ==
    \A b \in 1..MAX_FINDINGS_PER_PANEL :
        /\ <>(b \in DOMAIN d_pc => d_pc[b] = "settled")
        /\ (b \in DOMAIN d_pc /\ d_late[b])
              ~> (/\ b \in DOMAIN d_pc
                  /\ d_result[b] = <<allFallback(d_batches[b], TranslatePanelName,
                                                 "CLAUDE_TIMEOUT")>>)

----------------------------------------------------------------------------
(* SpecPipeline: one panel from the analyzer's detections to the findings  *)
(* of the translation                                                      *)

\* ESLint has reported the messages c_given, in the order of its output.
PipelineInit ==
    /\ c_pc = "detected"
    /\ c_given \in CapInputs
    /\ c_findings = <<>>
    /\ c_max = MAX_FINDINGS_PER_PANEL
    /\ c_result = <<>>
    /\ OrchParked /\ BatchParked /\ PanelParked /\ RateParked /\ StatusParked
    /\ IdsParked /\ OwnParked /\ ParseParked /\ AsyncParked

PipelineOthers ==
    UNCHANGED <<orchVars, batchVars, panelVars, rateVars, statusVars, idVars,
                ownVars, parseVars, asyncVars>>

\* runESLint returns: its loop has pushed the messages it met while
\* findings.length < MAX_FINDINGS_PER_PANEL.
AdapterReturns ==
    /\ c_pc = "detected"
    /\ c_findings' = runAdapter(1, [kind |-> "ok", detections |-> c_given]).findings
    /\ c_pc' = "adapted"
    /\ UNCHANGED <<c_given, c_max, c_result>>
    /\ PipelineOthers

\* translatePanel on the adapter's findings: the cap by severity, the
\* batches, the merge.
PanelTranslated(apiKey, behaviour) ==
    /\ c_pc = "adapted"
    /\ LET batches == sliceBatches(capFindingsBySeverity(c_findings, c_max).capped)
       IN c_result' = <<translatePanel(Panels[1], c_findings, apiKey,
                           [b \in 1..Len(batches) |->
                               serviceResponse(behaviour, batches[b])])>>
    /\ c_pc' = "reported"
    /\ UNCHANGED <<c_given, c_findings, c_max>>
    /\ PipelineOthers

PipelineNext ==
    \/ AdapterReturns
    \/ \E apiKey \in BOOLEAN, behaviour \in ServiceBehaviours :
          PanelTranslated(apiKey, behaviour)

SpecPipeline == PipelineInit /\ [][PipelineNext]_vars

ReportedIds == {c_result[1].findings[k].id : k \in 1..Len(c_result[1].findings)}

\* C34: when the analyzer detects more findings than MAX_FINDINGS_PER_PANEL,
\* the findings reported for the panel never leave out a detected finding
\* while holding a detected finding of strictly lower severity.
C34_NoLowerSeverityPreferred ==
    (c_pc = "reported" /\ Len(c_given) > MAX_FINDINGS_PER_PANEL) =>
        \A i, j \in 1..Len(c_given) :
            (c_given[i].id \notin ReportedIds /\ c_given[j].id \in ReportedIds)
                => SeverityRank[c_given[j].severity] >= SeverityRank[c_given[i].severity]

----------------------------------------------------------------------------
(* SpecOverlap: invocations of orchestrateScan that may overlap, and the   *)
(* quota they share                                                        *)

ScanSlots == 1..MaxOverlap

\* The process has started: rateLimitMap = new Map(), nothing is running.
OverlapInit ==
    /\ q_pc = [s \in ScanSlots |-> "idle"]
    /\ q_client = [s \in ScanSlots |-> Null]
    /\ q_seen = [s \in ScanSlots |-> <<>>]
    /\ q_outcome = [s \in ScanSlots |-> [code |-> "none", day |-> 0]]
    /\ q_map = [c \in Clients |-> NoEntry]
    /\ q_today = 1
    /\ q_reports = [c \in Clients |-> [d \in 1..MaxDay |-> 0]]
    /\ q_overlap \in BOOLEAN
    /\ OrchParked /\ BatchParked /\ PanelParked
    /\ CapParked /\ RateParked /\ StatusParked /\ IdsParked /\ OwnParked
    /\ ParseParked /\ DeadlineParked

OverlapOthers ==
    UNCHANGED <<orchVars, batchVars, panelVars, capVars, rateVars, statusVars,
                idVars, ownVars, parseVars, deadlineVars>>

\* Steps 1 and 2 without the early return on !canScan.
ScanChecks_noRefusal(s, c) ==
    /\ q_pc[s] = "idle"
    /\ q_overlap \/ \A t \in ScanSlots : q_pc[t] = "scanning" => q_client[t] # c
    /\ q_seen' = [q_seen EXCEPT ![s] = <<checkRateLimit(q_map, c, q_today)>>]
    /\ q_client' = [q_client EXCEPT ![s] = c]
    /\ q_pc' = [q_pc EXCEPT ![s] = "scanning"]
    /\ UNCHANGED <<q_outcome, q_map, q_today, q_reports, q_overlap>>
    /\ OverlapOthers

\* Steps 1 and 2 of an invocation for client c, up to the first await:
\* checkRateLimit(clientIp), and the early return on !canScan.  Callers that
\* do not let scans of one client overlap start it only when no scan of c
\* is between its check and its return.
ScanChecks(s, c) ==
    /\ q_pc[s] = "idle"
    /\ q_overlap \/ \A t \in ScanSlots : q_pc[t] = "scanning" => q_client[t] # c
    /\ LET rateLimit == checkRateLimit(q_map, c, q_today)
       IN /\ q_seen' = [q_seen EXCEPT ![s] = <<rateLimit>>]
          /\ q_client' = [q_client EXCEPT ![s] = c]
          /\ IF ~rateLimit.canScan
             THEN /\ q_pc' = [q_pc EXCEPT ![s] = "returned"]
                  /\ q_outcome' = [q_outcome EXCEPT ![s] =
                                        [code |-> "RATE_LIMIT_EXCEEDED", day |-> q_today]]
             ELSE /\ q_pc' = [q_pc EXCEPT ![s] = "scanning"]
                  /\ q_outcome' = q_outcome
    /\ UNCHANGED <<q_map, q_today, q_reports, q_overlap>>
    /\ OverlapOthers

\* The fetch fails or an exception reaches the catch block: an error is
\* returned and incrementRateLimit is not called.
ScanFails(s, code) ==
    /\ q_pc[s] = "scanning"
    /\ q_pc' = [q_pc EXCEPT ![s] = "returned"]
    /\ q_outcome' = [q_outcome EXCEPT ![s] = [code |-> code, day |-> q_today]]
    /\ UNCHANGED <<q_client, q_seen, q_map, q_today, q_reports, q_overlap>>
    /\ OverlapOthers

\* Step 9 written as a read at Step 2 and a write at Step 9: the count
\* stored is the count the check saw plus one.
ScanReturnsReport_staleWrite(s) ==
    /\ q_pc[s] = "scanning"
    /\ q_map' = [q_map EXCEPT ![q_client[s]] =
                    [count |-> q_seen[s][1].scansToday + 1, resetDate |-> q_today]]
    /\ q_reports' = [q_reports EXCEPT ![q_client[s]][q_today] = @ + 1]
    /\ q_pc' = [q_pc EXCEPT ![s] = "returned"]
    /\ q_outcome' = [q_outcome EXCEPT ![s] = [code |-> "report", day |-> q_today]]
    /\ UNCHANGED <<q_client, q_seen, q_today, q_overlap>>
    /\ OverlapOthers

\* Step 9 and the return, after the last await: incrementRateLimit(clientIp)
\* reads and writes the entry in one synchronous stretch, and the report is
\* returned.
ScanReturnsReport(s) ==
    /\ q_pc[s] = "scanning"
    /\ q_map' = incrementRateLimit(q_map, q_client[s], q_today)
    /\ q_reports' = [q_reports EXCEPT ![q_client[s]][q_today] = @ + 1]
    /\ q_pc' = [q_pc EXCEPT ![s] = "returned"]
    /\ q_outcome' = [q_outcome EXCEPT ![s] = [code |-> "report", day |-> q_today]]
    /\ UNCHANGED <<q_client, q_seen, q_today, q_overlap>>
    /\ OverlapOthers

\* The UTC date changes.
OverlapNextDay ==
    /\ q_today < MaxDay
    /\ q_today' = q_today + 1
    /\ UNCHANGED <<q_pc, q_client, q_seen, q_outcome, q_map, q_reports, q_overlap>>
    /\ OverlapOthers

OverlapNext ==
    \/ \E s \in ScanSlots, c \in Clients : ScanChecks(s, c)
    \/ \E s \in ScanSlots, code \in {"REPO_NOT_FOUND", "INTERNAL_ERROR"} : ScanFails(s, code)
    \/ \E s \in ScanSlots : ScanReturnsReport(s)
    \/ OverlapNextDay

SpecOverlap == OverlapInit /\ [][OverlapNext]_vars

\* The days on which client c was returned a report, and the scans of c that
\* returned a report on the current day.
ReportDays(c) == {d \in 1..MaxDay : q_reports[c][d] > 0}
ReportedToday(c) ==
    {s \in ScanSlots : q_client[s] = c /\ q_outcome[s] = [code |-> "report", day |-> q_today]}

\* C35: whether or not scans overlap, no increment is lost: a client's
\* stored record is that of the last day on which a scan of theirs returned
\* a report, and its count is the number of reports returned to them on that
\* day (no record when there was none).
C35_NoIncrementLost ==
    \A c \in Clients :
        IF ReportDays(c) = {}
        THEN q_map[c] = NoEntry
        ELSE q_map[c] = [count |-> q_reports[c][Max(ReportDays(c))],
                         resetDate |-> Max(ReportDays(c))]

\* C35 witness: two overlapping scans of one client passed the check against
\* the same count, both returned a report, and the client's count for the
\* day is above MAX_SCANS_PER_DAY.
C35_Witness ==
    /\ q_overlap
    /\ \E c \in Clients, s, t \in ScanSlots :
          /\ s # t
          /\ {s, t} \subseteq ReportedToday(c)
          /\ q_seen[s] = q_seen[t]
          /\ q_map[c].count > MAX_SCANS_PER_DAY
          /\ q_reports[c][q_today] > MAX_SCANS_PER_DAY

\* C36: when the scans of a client never overlap, the client's stored count
\* never exceeds MAX_SCANS_PER_DAY, and on the day of the record it is the
\* number of the client's scans that returned a report on that day.
C36_SequentialCountBounded ==
    ~q_overlap =>
        \A c \in Clients :
            /\ q_map[c].count <= MAX_SCANS_PER_DAY
            /\ q_map[c].resetDate = q_today =>
                  q_map[c].count = Cardinality(ReportedToday(c))

\* C36 witness: without overlap a client has used the whole quota of the day
\* and a further scan of theirs was refused.
C36_Witness ==
    /\ ~q_overlap
    /\ \E c \in Clients, s \in ScanSlots :
          /\ q_map[c] = [count |-> MAX_SCANS_PER_DAY, resetDate |-> q_today]
          /\ Cardinality(ReportedToday(c)) = MAX_SCANS_PER_DAY
          /\ q_client[s] = c
          /\ q_outcome[s] = [code |-> "RATE_LIMIT_EXCEEDED", day |-> q_today]

\* A step inside the try block has thrown: url.trim() on a repoUrl that is
\* no string, or fetchGitHubRepo past its own try/catch.
FailureRaised ==
    \/ (pc # "validate" /\ ~args.repoUrl.isString)
    \/ (fetchResult # <<>> /\ fetchResult[1].threw)

C37_CleanupFailedReached ==
    /\ pc = "returned"
    /\ tempDir # 0 /\ tempDir \in fsDirs
    /\ HasReport

\* C38: in every report orchestrateScan returns, each of the four panels has
\* status success or partial, never skipped, so the report's overall status
\* is success or partial and never the 'error' of calculateStatus, whatever
\* the analyzers did.
C38_NoSkippedPanel ==
    HasReport =>
        /\ \A i \in 1..4 : report.panels[i].status \in {"success", "partial"}
        /\ report.status \in {"success", "partial"}
        /\ report.status = "partial" <=>
              \E i \in 1..4 : report.panels[i].status = "partial"

\* C38 witness: all four analyzers failed and the scan returned a report with
\* four partial panels and overall status partial.
C38_Witness ==
    /\ pc = "returned"
    /\ crashed = 1..4
    /\ HasReport
    /\ \A i \in 1..4 : report.panels[i].status = "partial"
    /\ report.status = "partial"

\* The ids of the findings batch b answered for, and the ids of all batches
\* one after the other.
BatchIds(b) == IdsOfFindings(t_batchResults[b].findings)
AllBatchIds == FlatMap([b \in 1..Len(t_arrival) |-> BatchIds(b)])

\* C39: when translatePanel runs batches, the batches are consecutive
\* stretches of the capped findings that together are the capped list (each
\* capped finding in exactly one batch), no batch is empty or longer than
\* BATCH_SIZE, only the last may be shorter, and the number of service calls
\* is the capped count divided by BATCH_SIZE, rounded up, one call per batch.
C39_BatchesPartitionCapped ==
    BatchesRun =>
        LET n == Len(t_cap.capped)
            service_calls == Len(t_arrival)
        IN /\ service_calls * BATCH_SIZE >= n
           /\ (service_calls - 1) * BATCH_SIZE < n
           /\ DOMAIN t_batchResults = 1..service_calls
           /\ {t_arrival[k] : k \in 1..service_calls} = 1..service_calls
           /\ \A b \in 1..service_calls :
                 /\ Len(BatchIds(b)) \in 1..BATCH_SIZE
                 /\ b < service_calls => Len(BatchIds(b)) = BATCH_SIZE
           /\ AllBatchIds = IdsOfFindings(t_cap.capped)

\* C39 witness: a panel whose capped findings need a full batch and a
\* shorter last one.
C39_Witness ==
    /\ BatchesRun
    /\ Len(t_arrival) > 1
    /\ Len(BatchIds(1)) = BATCH_SIZE
    /\ Len(BatchIds(Len(t_arrival))) < BATCH_SIZE

====
